---- MODULE Spec2Model ----
(***************************************************************************)
(* A model of the passive-scanner engine: Planner / ScanPlan               *)
(* (src/engine/planner.py), EvidenceCollector (src/engine/evidence.py) and *)
(* the provider interface (src/providers/base.py).                         *)
(*                                                                         *)
(* A Python dict is insertion ordered, so a dict is modelled as a sequence *)
(* of entries with distinct keys.  A provider is a collaborator: its       *)
(* can_handle is a fixed function of the probe's protocol, its query is an *)
(* external call whose outcome the environment chooses at each call.       *)
(***************************************************************************)
EXTENDS Integers, Sequences, FiniteSets, TLC

VARIABLES
    providers,        \* Planner.providers: list of registered providers
    plan,             \* ScanPlan.target_probes of the caller's plan: ordered dict
    evidence_list,    \* EvidenceCollector.evidence_list
    pc,               \* "idle", or "exec" while execute_plan is in its loops
    ti,               \* execute_plan: position in plan.get_targets()
    pi,               \* execute_plan: position in the target's probe list
    target_results,   \* execute_plan: local target_results
    results,          \* execute_plan: local results (ordered dict)
    queries,          \* provider.query calls made so far by the running execute_plan
    ev_base,          \* length of the collector when the running execute_plan was entered
    ret               \* the last call and what it gave back to the caller

vars == <<providers, plan, evidence_list, pc, ti, pi, target_results,
          results, queries, ev_base, ret>>

---------------------------------------------------------------------------
(* Bounds of the exploration *)

MaxProviders == 2
MaxProbes == 2
MaxPlanProbes == 3
MaxEvidence == 3
MaxTargets == 2

MaxDelay == 2

(* Program constant: default of max_probes_per_target *)
DefaultMaxProbesPerTarget == 10

Targets == {"192.0.2.1", "192.0.2.2"}

---------------------------------------------------------------------------
(* Data model: fingerprint/model.py *)

HttpProbe == [name |-> "http_server_header", protocol |-> "http",
              field |-> "headers.server", match_type |-> "contains",
              value |-> "Apache"]

TlsProbe == [name |-> "tls_certificate", protocol |-> "tls",
             field |-> "certificate.serial", match_type |-> "exact",
             value |-> "1234567890ABCDEF"]

DnsProbe == [name |-> "dns_record", protocol |-> "dns",
             field |-> "dns.a", match_type |-> "exact",
             value |-> "192.0.2.1"]

Probe == {HttpProbe, TlsProbe, DnsProbe}

(* all lists of at most n elements of S *)
SeqUpTo(S, n) == UNION {[1..k -> S] : k \in 0..n}

ProbeLists == SeqUpTo(Probe, MaxProbes)

---------------------------------------------------------------------------
(* Providers: providers/base.py, providers/netlas.py, the tests' mocks.    *)
(* handles: the protocols for which can_handle answers true; raises: the   *)
(* protocols for which can_handle raises instead of answering.             *)

NetlasProvider == [cls |-> "NetlasProvider", handles |-> {"http", "tls"},
                   raises |-> {}]

FaultyProvider == [cls |-> "FaultyProvider", handles |-> {"http"},
                   raises |-> {"dns"}]

BaseProvider == {NetlasProvider, FaultyProvider}

(* provider.can_handle(probe): "true", "false" or "raise" *)
can_handle(provider, probe) ==
    IF probe.protocol \in provider.raises THEN "raise"
    ELSE IF probe.protocol \in provider.handles THEN "true"
    ELSE "false"

---------------------------------------------------------------------------
(* Python values and helpers *)

(* The values found in a result are tagged with their Python type: None,   *)
(* str, list or dict (a dict is a function from its keys).                 *)
NoneV == [t |-> "None"]
StrV(s) == [t |-> "str", s |-> s]
ListV(l) == [t |-> "list", l |-> l]
DictV(d) == [t |-> "dict", d |-> d]
EmptyDictV == DictV(<< >>)

(* an exception on its way out of the expression being evaluated *)
Raising(exc) == [t |-> "raise", exc |-> exc]

(* f"{v}" for None and for a str *)
Format(v) == CASE v.t = "None" -> "None" [] v.t = "str" -> v.s

PyNone == NoneV
EmptyDict == EmptyDictV

(* d.get(k, default) on a dict modelled as a function *)
Get(d, k, default) == IF k \in DOMAIN d THEN d[k] ELSE default

(* truthiness of a value held in a result's data field *)
Truthy(v) == v \notin {PyNone, EmptyDict, StrV(""), ListV(<< >>)}

Min(a, b) == IF a < b THEN a ELSE b
Max(a, b) == IF a > b THEN a ELSE b

(* s[:n], negative n counting from the end *)
PySliceTo(s, n) ==
    IF n >= 0 THEN SubSeq(s, 1, Min(n, Len(s)))
    ELSE SubSeq(s, 1, Max(Len(s) + n, 0))

(* position of key k in an ordered dict, 0 when absent *)
KeyIndex(d, k) ==
    IF \E i \in 1..Len(d) : d[i].target = k
    THEN CHOOSE i \in 1..Len(d) : d[i].target = k
    ELSE 0

RECURSIVE SumLen(_)
SumLen(d) == IF d = << >> THEN 0 ELSE Len(Head(d).probes) + SumLen(Tail(d))

---------------------------------------------------------------------------
(* ScanPlan: engine/planner.py *)

(* ScanPlan(): no target *)
NewScanPlan == << >>

(* self.target_probes[target] = probes *)
add_target(tp, target, probes) ==
    LET k == KeyIndex(tp, target) IN
    IF k = 0 THEN Append(tp, [target |-> target, probes |-> probes])
    ELSE [tp EXCEPT ![k].probes = probes]

get_targets(tp) == [i \in 1..Len(tp) |-> tp[i].target]

get_probes_for_target(tp, target) ==
    LET k == KeyIndex(tp, target) IN
    IF k = 0 THEN << >> ELSE tp[k].probes

(* Defective variant of validate: a plan needs a probe to be valid *)
validate_NeedsProbe(tp) == SumLen(tp) > 0

(* validate: not self.target_probes is the emptiness of the dict *)
validate(tp) == tp # << >>

(* What self.target_probes[target] would leave behind: reading a missing   *)
(* key of a defaultdict(list) inserts it with an empty list                *)
target_probes_after_getitem(tp, target) ==
    IF KeyIndex(tp, target) = 0
    THEN Append(tp, [target |-> target, probes |-> << >>])
    ELSE tp

(* The dict after self.target_probes.get(target, []): .get inserts         *)
(* nothing, also on a defaultdict                                          *)
target_probes_after_get(tp, target) ==
    tp

(* Defective variant of estimate_scan_time: one delay per target *)
estimate_scan_time_PerTarget(tp, provider_delay) ==
    Len(tp) * provider_delay

(* estimate_scan_time: sum(len(probes) for probes in values()) * delay *)
estimate_scan_time(tp, provider_delay) ==
    SumLen(tp) * provider_delay

---------------------------------------------------------------------------
(* Planner: provider selection and plan construction *)

(* any(provider.can_handle(probe) for provider in self.providers), scanning *)
(* from position i: "true" at the first provider that answers true, "raise" *)
(* if a provider raises before that, else "false"                           *)
RECURSIVE AnyCanHandle(_, _, _)
AnyCanHandle(provs, probe, i) ==
    IF i > Len(provs) THEN "false"
    ELSE LET c == can_handle(provs[i], probe) IN
         IF c = "false" THEN AnyCanHandle(provs, probe, i + 1) ELSE c

(* Defective variant of SelectFrom: the last capable provider wins *)
SelectLast(provs, probe, i) ==
    LET capable == {j \in i..Len(provs) : can_handle(provs[j], probe) = "true"} IN
    IF capable = {} THEN 0 ELSE CHOOSE j \in capable : \A k \in capable : k <= j

(* select_provider_for_probe scanning from position i: the position of the *)
(* provider returned, 0 for None, -1 when a can_handle call raised          *)
RECURSIVE SelectFrom(_, _, _)
SelectFrom(provs, probe, i) ==
    IF i > Len(provs) THEN 0
    ELSE LET c == can_handle(provs[i], probe) IN
         IF c = "raise" THEN -1
         ELSE IF c = "true" THEN i
         ELSE SelectFrom(provs, probe, i + 1)

select_provider_for_probe(provs, probe) == SelectFrom(provs, probe, 1)

(* the valid_probes list of one target *)
RECURSIVE ValidProbes(_, _)
ValidProbes(provs, probes) ==
    IF probes = << >> THEN << >>
    ELSE IF AnyCanHandle(provs, Head(probes), 1) = "true"
         THEN <<Head(probes)>> \o ValidProbes(provs, Tail(probes))
         ELSE ValidProbes(provs, Tail(probes))

(* Defective variant of PlanTargets: a target is stored even when no probe *)
(* survived the filter                                                     *)
RECURSIVE PlanTargetsKeepEmpty(_, _, _, _)
PlanTargetsKeepEmpty(provs, targets, probes, tp) ==
    IF targets = << >> THEN tp
    ELSE PlanTargetsKeepEmpty(provs, Tail(targets), probes, add_target(tp, Head(targets), ValidProbes(provs, probes)))

(* the loop over targets of create_scan_plan, on the probes already cut to *)
(* max_probes_per_target                                                   *)
RECURSIVE PlanTargets(_, _, _, _)
PlanTargets(provs, targets, probes, tp) ==
    IF targets = << >> THEN tp
    ELSE LET valid_probes == ValidProbes(provs, probes) IN
         PlanTargets(provs, Tail(targets), probes,
                     IF valid_probes # << >>
                     THEN add_target(tp, Head(targets), valid_probes)
                     ELSE tp)

(* Defective variant of create_scan_plan: capability filter first, cut to  *)
(* max_probes_per_target afterwards                                        *)
create_scan_plan_FilterFirst(provs, targets, fp_probes, max_probes_per_target) ==
    IF targets # << >> /\ \E i \in 1..Len(fp_probes) : AnyCanHandle(provs, fp_probes[i], 1) = "raise"
    THEN [status |-> "raised", value |-> NewScanPlan]
    ELSE [status |-> "returned",
          value |-> PlanTargets(provs, targets, PySliceTo(ValidProbes(provs, fp_probes), max_probes_per_target), NewScanPlan)]

(* create_scan_plan: the plan returned, or a raise when a can_handle call  *)
(* made while filtering raised                                             *)
create_scan_plan(provs, targets, fp_probes, max_probes_per_target) ==
    LET probes == PySliceTo(fp_probes, max_probes_per_target) IN
    IF targets # << >> /\ \E i \in 1..Len(probes) :
                              AnyCanHandle(provs, probes[i], 1) = "raise"
    THEN [status |-> "raised", value |-> NewScanPlan]
    ELSE [status |-> "returned",
          value |-> PlanTargets(provs, targets, probes, NewScanPlan)]

---------------------------------------------------------------------------
(* EvidenceCollector: engine/evidence.py *)

Evidence(probe_name, target, success, match, expected_value, actual_value, error_message, raw_data) ==
    [probe_name |-> probe_name, target |-> target, success |-> success,
     match |-> match, expected_value |-> expected_value,
     actual_value |-> actual_value, error_message |-> error_message,
     raw_data |-> raw_data]

(* Defective variant of add_probe_result: raw_data stored as passed *)
add_probe_result_raw(ev, probe_name, target, success, match, expected_value, actual_value, error_message, raw_data) ==
    Append(ev, Evidence(probe_name, target, success, match, expected_value, actual_value, error_message, raw_data))

(* Defective variant of add_evidence: a record equal to a stored one is   *)
(* not stored again                                                        *)
add_evidence_Dedup(ev, evidence) ==
    IF \E i \in 1..Len(ev) : ev[i] = evidence THEN ev ELSE Append(ev, evidence)

(* add_evidence: self.evidence_list.append(evidence) *)
add_evidence(ev, evidence) ==
    Append(ev, evidence)

(* add_probe_result: raw_data or {} ; then add_evidence appends *)
add_probe_result(ev, probe_name, target, success, match, expected_value, actual_value, error_message, raw_data) ==
    add_evidence(ev, Evidence(probe_name, target, success, match, expected_value,
                              actual_value, error_message,
                              IF Truthy(raw_data) THEN raw_data ELSE EmptyDict))

(* get_evidence_for_target: [e for e in self.evidence_list if e.target == target] *)
get_evidence_for_target(ev, target) ==
    LET ForTarget(e) == e.target = target IN SelectSeq(ev, ForTarget)

(* get_failed_probes: [e for e in self.evidence_list if not e.success] *)
get_failed_probes(ev) ==
    LET Failed(e) == ~e.success IN SelectSeq(ev, Failed)

(* Defective variant of get_matching_probes: success is not looked at *)
get_matching_probes_AnyMatch(ev) ==
    LET Matching(e) == e.match IN SelectSeq(ev, Matching)

(* get_matching_probes: [e for e in self.evidence_list if e.success and e.match] *)
get_matching_probes(ev) ==
    LET Matching(e) == e.success /\ e.match IN SelectSeq(ev, Matching)

(* Defective variant of summary: match is looked at before success *)
summary_MatchFirst(e) ==
    IF e.match
    THEN "Matched '" \o e.expected_value \o "' found as '" \o e.actual_value \o "'"
    ELSE IF ~e.success
         THEN "Failed: " \o e.error_message
         ELSE "No match: expected '" \o e.expected_value \o "', got '" \o e.actual_value \o "'"

(* Evidence.summary *)
summary(e) ==
    IF ~e.success
    THEN "Failed: " \o e.error_message
    ELSE IF e.match
         THEN "Matched '" \o e.expected_value \o "' found as '" \o e.actual_value \o "'"
         ELSE "No match: expected '" \o e.expected_value \o "', got '" \o e.actual_value \o "'"

---------------------------------------------------------------------------
(* What a provider's query(target, probe) can do: return a result dict,    *)
(* return a value that is no dict (None), or raise.                        *)

(* what a response holds *)
ApacheServer == "Apache/2.4.41"
NginxServer == "Nginx"
CertSerial == "1234567890ABCDEF"

(* the first item of a response: {"data": {"http": {"head": {"server": s}}}} *)
HttpItem(server) == DictV([data |-> DictV([http |-> DictV([head |-> DictV([server |-> server])])])])
CertItem(serial) == DictV([data |-> DictV([certificate |-> DictV([serial |-> serial])])])
BothItem == DictV([data |-> DictV([http |-> DictV([head |-> DictV([server |-> StrV(ApacheServer)])]), certificate |-> DictV([serial |-> StrV(CertSerial)])])])

Items(l) == DictV([items |-> ListV(l)])

OkResult == [success |-> TRUE, data |-> Items(<<BothItem>>), error |-> PyNone]

FailedResult == [success |-> FALSE, data |-> PyNone, error |-> StrV("Timeout")]

BareResult == [error |-> StrV("no fields")]

ResultDict == {OkResult, FailedResult, BareResult}

ProviderFailure == "Provider failure"

NoneHasNoGet == "'NoneType' object has no attribute 'get'"

QueryOutcome ==
    {[kind |-> "dict", result |-> r] : r \in ResultDict}
    \cup {[kind |-> "none"], [kind |-> "raise", message |-> ProviderFailure]}

NoProviderAvailable == "No provider available"

---------------------------------------------------------------------------
(* State after construction: Planner(), ScanPlan(), EvidenceCollector() *)

(* ret after a call that gives nothing back (returns None) *)
NoValue == [op |-> "none", status |-> "returned"]

Init ==
    /\ providers = << >>
    /\ plan = NewScanPlan
    /\ evidence_list = << >>
    /\ pc = "idle"
    /\ ti = 0
    /\ pi = 0
    /\ target_results = << >>
    /\ results = << >>
    /\ queries = << >>
    /\ ev_base = 0
    /\ ret = NoValue

exec_locals == <<ti, pi, target_results, results, queries, ev_base>>

(* The caller's calls.  The exploration is bounded to callers that set up  *)
(* the registry and the plan while the collector is empty, run the plan    *)
(* (again, as long as the collector stays within MaxEvidence) and clear    *)
(* the collector before changing the setup; create_scan_plan is explored   *)
(* for a caller that has not built a plan by hand, once per setup (its     *)
(* result depends on the registry and its arguments only).                 *)

(* Defective variant of RegisterProvider: the new provider is put in front *)
RegisterProvider_First(provider) ==
    /\ pc = "idle"
    /\ evidence_list = << >>
    /\ Len(providers) < MaxProviders
    /\ providers' = <<provider>> \o providers
    /\ ret' = [op |-> "register_provider", status |-> "returned"]
    /\ UNCHANGED <<plan, evidence_list, pc, exec_locals>>

(* Planner.register_provider *)
RegisterProvider(provider) ==
    /\ pc = "idle"
    /\ evidence_list = << >>
    /\ Len(providers) < MaxProviders
    /\ providers' = Append(providers, provider)
    /\ ret' = [op |-> "register_provider", status |-> "returned"]
    /\ UNCHANGED <<plan, evidence_list, pc, exec_locals>>

(* ScanPlan.add_target on the caller's plan *)
AddTarget(target, probes) ==
    /\ pc = "idle"
    /\ evidence_list = << >>
    /\ SumLen(add_target(plan, target, probes)) <= MaxPlanProbes
    /\ plan' = add_target(plan, target, probes)
    /\ ret' = NoValue
    /\ UNCHANGED <<providers, evidence_list, pc, exec_locals>>

(* plan = planner.create_scan_plan(targets, fingerprint, max) *)
CreateScanPlan(targets, fp_probes, max_probes_per_target) ==
    /\ pc = "idle"
    /\ evidence_list = << >>
    /\ plan = NewScanPlan
    /\ ret.op # "create_scan_plan"
    /\ LET r == create_scan_plan(providers, targets, fp_probes,
                                 max_probes_per_target) IN
       /\ plan' = IF r.status = "returned" THEN r.value ELSE plan
       /\ ret' = [op |-> "create_scan_plan", status |-> r.status,
                  targets |-> targets, probes |-> fp_probes,
                  max_probes_per_target |-> max_probes_per_target]
    /\ UNCHANGED <<providers, evidence_list, pc, exec_locals>>

(* planner.select_provider_for_probe(probe), called by the caller *)
SelectProvider(probe) ==
    /\ pc = "idle"
    /\ evidence_list = << >>
    /\ LET k == select_provider_for_probe(providers, probe) IN
       ret' = [op |-> "select_provider_for_probe", probe |-> probe,
               status |-> IF k = -1 THEN "raised" ELSE "returned",
               value |-> k]
    /\ UNCHANGED <<providers, plan, evidence_list, pc, exec_locals>>

(* EvidenceCollector.clear *)
Clear ==
    /\ pc = "idle"
    /\ evidence_list # << >>
    /\ evidence_list' = << >>
    /\ ret' = NoValue
    /\ UNCHANGED <<providers, plan, pc, exec_locals>>

---------------------------------------------------------------------------
(* Planner.execute_plan, one step per loop iteration: the query it makes   *)
(* is a blocking external call.                                            *)

(* results[target] = target_results *)
SetResult(rs, target, pairs) ==
    LET k == KeyIndex(rs, target) IN
    IF k = 0 THEN Append(rs, [target |-> target, pairs |-> pairs])
    ELSE [rs EXCEPT ![k].pairs = pairs]

(* Defective variant of OnException: the message of the exception is lost *)
OnExceptionNoMessage(ev, target, probe, message) ==
    add_probe_result(ev, probe.name, target, FALSE, FALSE, "", "", "", PyNone)

(* the except branch: one failed record carrying str(e) *)
OnException(ev, target, probe, message) ==
    add_probe_result(ev, probe.name, target, FALSE, FALSE, "", "", message, PyNone)

(* Defective variant of OnResult: the pair is kept only for a successful   *)
(* result                                                                  *)
OnResultOnlySuccess(ev, tr, target, probe, result) ==
    [evidence_list |-> add_probe_result(ev, probe.name, target, Get(result, "success", FALSE), FALSE, probe.value, "", "", Get(result, "data", EmptyDict)),
     target_results |-> IF Get(result, "success", FALSE) THEN Append(tr, [probe |-> probe, result |-> result]) ELSE tr]

(* Defective variant of OnResult: the error string of the result is        *)
(* copied to the record's error_message                                    *)
OnResultCopiesError(ev, tr, target, probe, result) ==
    LET error == Get(result, "error", PyNone) IN
    [evidence_list |-> add_probe_result(ev, probe.name, target, Get(result, "success", FALSE), FALSE, probe.value, "", IF error.t = "str" THEN error.s ELSE "", Get(result, "data", EmptyDict)),
     target_results |-> Append(tr, [probe |-> probe, result |-> result])]

(* the try block after provider.query gave a dict: the record and the pair *)
OnResult(ev, tr, target, probe, result) ==
    [evidence_list |-> add_probe_result(ev, probe.name, target, Get(result, "success", FALSE), FALSE, probe.value, "", "", Get(result, "data", EmptyDict)),
     target_results |-> Append(tr, [probe |-> probe, result |-> result])]

(* Defective variant of RunQuery: a result reporting failure is recorded   *)
(* by the try block and once more as an error                              *)
RunQueryTwoRecords(ev, tr, target, probe, outcome) ==
    IF outcome.kind = "dict"
    THEN LET r == OnResult(ev, tr, target, probe, outcome.result) IN
         IF Get(outcome.result, "success", FALSE) THEN r
         ELSE [evidence_list |-> OnException(r.evidence_list, target, probe, Format(Get(outcome.result, "error", PyNone))), target_results |-> r.target_results]
    ELSE [evidence_list |-> OnException(ev, target, probe, IF outcome.kind = "none" THEN NoneHasNoGet ELSE outcome.message),
          target_results |-> tr]

(* the try/except of one probe, given what provider.query did *)
RunQuery(ev, tr, target, probe, outcome) ==
    IF outcome.kind = "dict" THEN OnResult(ev, tr, target, probe, outcome.result)
    ELSE [evidence_list |-> OnException(ev, target, probe, IF outcome.kind = "none" THEN NoneHasNoGet ELSE outcome.message),
          target_results |-> tr]

(* Defective variant of OnNoProvider: the probe is skipped without a record *)
OnNoProviderSilent(ev, target, probe) == ev

(* the branch taken when select_provider_for_probe gave None *)
OnNoProvider(ev, target, probe) ==
    add_probe_result(ev, probe.name, target, FALSE, FALSE, "", "", NoProviderAvailable, PyNone)

CurTarget == get_targets(plan)[ti]
CurProbes == get_probes_for_target(plan, CurTarget)
CurProbe == CurProbes[pi]

InProbeLoop == pc = "exec" /\ ti <= Len(plan) /\ pi <= Len(CurProbes)

(* Defective variant of ExecBegin: an invalid plan is refused by raising *)
ExecBeginRaises ==
    /\ pc = "idle"
    /\ Len(evidence_list) + SumLen(plan) <= MaxEvidence
    /\ IF ~validate(plan)
       THEN /\ ret' = [op |-> "execute_plan", status |-> "raised", queries |-> << >>, ev_base |-> Len(evidence_list)]
            /\ UNCHANGED <<pc, ti, pi, ev_base>>
       ELSE /\ ret' = [op |-> "execute_plan", status |-> "running"]
            /\ pc' = "exec"
            /\ ti' = 1
            /\ pi' = 1
            /\ ev_base' = Len(evidence_list)
    /\ UNCHANGED <<providers, plan, evidence_list, target_results, results, queries>>

(* entry: the validity check, then the loops start *)
ExecBegin ==
    /\ pc = "idle"
    /\ Len(evidence_list) + SumLen(plan) <= MaxEvidence
    /\ IF ~validate(plan)
       THEN /\ ret' = [op |-> "execute_plan", status |-> "returned", value |-> << >>, queries |-> << >>, ev_base |-> Len(evidence_list)]
            /\ UNCHANGED <<pc, ti, pi, ev_base>>
       ELSE /\ ret' = [op |-> "execute_plan", status |-> "running"]
            /\ pc' = "exec"
            /\ ti' = 1
            /\ pi' = 1
            /\ ev_base' = Len(evidence_list)
    /\ UNCHANGED <<providers, plan, evidence_list, target_results, results, queries>>

(* a can_handle call of select_provider_for_probe raises: nothing catches it *)
ExecSelectRaises ==
    /\ InProbeLoop
    /\ select_provider_for_probe(providers, CurProbe) = -1
    /\ pc' = "idle"
    /\ ret' = [op |-> "execute_plan", status |-> "raised", queries |-> queries, ev_base |-> ev_base]
    /\ ti' = 0
    /\ pi' = 0
    /\ target_results' = << >>
    /\ results' = << >>
    /\ queries' = << >>
    /\ ev_base' = 0
    /\ UNCHANGED <<providers, plan, evidence_list>>

(* no provider: a failed record, continue *)
ExecNoProvider ==
    /\ InProbeLoop
    /\ select_provider_for_probe(providers, CurProbe) = 0
    /\ evidence_list' = OnNoProvider(evidence_list, CurTarget, CurProbe)
    /\ pi' = pi + 1
    /\ UNCHANGED <<providers, plan, pc, ti, target_results, results, queries, ev_base, ret>>

(* Defective variant of ExecQuery: a query that raised or reported a       *)
(* failure is made again                                                   *)
ExecQuery_Retry(outcome) ==
    /\ InProbeLoop
    /\ LET k == select_provider_for_probe(providers, CurProbe)
           r == RunQuery(evidence_list, target_results, CurTarget, CurProbe, outcome)
       IN /\ k >= 1
          /\ queries' = Append(queries, [provider |-> k, target |-> CurTarget, probe |-> CurProbe, outcome |-> outcome])
          /\ evidence_list' = r.evidence_list
          /\ target_results' = r.target_results
    /\ pi' = IF outcome.kind = "raise" \/ outcome = [kind |-> "dict", result |-> FailedResult]
             THEN pi ELSE pi + 1
    /\ UNCHANGED <<providers, plan, pc, ti, results, ev_base, ret>>

(* a provider is selected and queried *)
ExecQuery(outcome) ==
    /\ InProbeLoop
    /\ LET k == select_provider_for_probe(providers, CurProbe)
           r == RunQuery(evidence_list, target_results, CurTarget, CurProbe, outcome)
       IN /\ k >= 1
          /\ queries' = Append(queries, [provider |-> k, target |-> CurTarget, probe |-> CurProbe, outcome |-> outcome])
          /\ evidence_list' = r.evidence_list
          /\ target_results' = r.target_results
    /\ pi' = pi + 1
    /\ UNCHANGED <<providers, plan, pc, ti, results, ev_base, ret>>

(* end of the probe loop of one target *)
ExecTargetDone ==
    /\ pc = "exec"
    /\ ti <= Len(plan)
    /\ pi > Len(CurProbes)
    /\ results' = SetResult(results, CurTarget, target_results)
    /\ ti' = ti + 1
    /\ pi' = 1
    /\ target_results' = << >>
    /\ UNCHANGED <<providers, plan, evidence_list, pc, queries, ev_base, ret>>

(* end of the target loop: return results *)
ExecReturn ==
    /\ pc = "exec"
    /\ ti > Len(plan)
    /\ pc' = "idle"
    /\ ret' = [op |-> "execute_plan", status |-> "returned", value |-> results, queries |-> queries, ev_base |-> ev_base]
    /\ ti' = 0
    /\ pi' = 0
    /\ results' = << >>
    /\ queries' = << >>
    /\ ev_base' = 0
    /\ UNCHANGED <<providers, plan, evidence_list, target_results>>

TargetLists == SeqUpTo(Targets, MaxTargets)

MaxProbesArgs == (-1 .. MaxProbes) \cup {DefaultMaxProbesPerTarget}

Next ==
    \/ \E provider \in BaseProvider : RegisterProvider(provider)
    \/ \E target \in Targets, probes \in ProbeLists : AddTarget(target, probes)
    \/ \E targets \in TargetLists, probes \in ProbeLists, m \in MaxProbesArgs : CreateScanPlan(targets, probes, m)
    \/ \E probe \in Probe : SelectProvider(probe)
    \/ Clear
    \/ ExecBegin
    \/ ExecSelectRaises
    \/ ExecNoProvider
    \/ \E outcome \in QueryOutcome : ExecQuery(outcome)
    \/ ExecTargetDone
    \/ ExecReturn

Spec == Init /\ [][Next]_vars

---------------------------------------------------------------------------
(* Vocabulary of the properties *)

(* execute_plan has just given control back to its caller *)
ExecEnded == pc = "idle" /\ ret.op = "execute_plan"
ExecReturned == ExecEnded /\ ret.status = "returned"

Last(s) == s[Len(s)]

(* some registered provider answers can_handle = true *)
Capable(provs, probe) == \E i \in 1..Len(provs) : can_handle(provs[i], probe) = "true"

(* the (target, probe) entries of a plan, in execution order *)
RECURSIVE FlatPlan(_)
FlatPlan(tp) ==
    IF tp = << >> THEN << >>
    ELSE [j \in 1..Len(Head(tp).probes) |-> [target |-> Head(tp).target, probe |-> Head(tp).probes[j]]] \o FlatPlan(Tail(tp))

(* the records from position n + 1 on, as (target, probe name) *)
Attempted(ev, n) == [j \in 1..(Len(ev) - n) |-> [target |-> ev[n + j].target, probe_name |-> ev[n + j].probe_name]]

PlanNames(tp, n) == [j \in 1..n |-> [target |-> FlatPlan(tp)[j].target, probe_name |-> FlatPlan(tp)[j].probe.name]]

(* the step just taken was a provider.query call; its log entry *)
Queried == pc = "exec" /\ Len(queries') = Len(queries) + 1
NewQuery == Last(queries')

(* the step appended exactly one record and kept the earlier ones *)
AppendedOne == Len(evidence_list') = Len(evidence_list) + 1 /\ SubSeq(evidence_list', 1, Len(evidence_list)) = evidence_list

(* the loop moved on to the next probe of the same target *)
NextProbe == pc' = "exec" /\ ti' = ti /\ pi' = pi + 1 /\ plan' = plan

---------------------------------------------------------------------------
(* C1: when the selected provider's query raises, execute_plan catches it:  *)
(* the step appends exactly one record with success = false, match = false *)
(* and the exception's message, adds no (probe, result) pair, and goes on   *)
(* with the next probe; a run that returns has attempted every entry of    *)
(* the plan, those after the raising query included.                       *)
C1_RaiseStep ==
    (Queried /\ NewQuery.outcome.kind = "raise") =>
        /\ AppendedOne
        /\ Last(evidence_list').probe_name = NewQuery.probe.name
        /\ Last(evidence_list').target = NewQuery.target
        /\ Last(evidence_list').success = FALSE
        /\ Last(evidence_list').match = FALSE
        /\ Last(evidence_list').error_message = NewQuery.outcome.message
        /\ target_results' = target_results
        /\ results' = results
        /\ NextProbe

C1_AllAttempted ==
    (ExecReturned /\ \E i \in 1..Len(ret.queries) : ret.queries[i].outcome.kind = "raise") =>
        /\ Attempted(evidence_list, ret.ev_base) = PlanNames(plan, SumLen(plan))
        /\ get_targets(ret.value) = get_targets(plan)

C1_QueryExceptionContained == [][C1_RaiseStep]_vars /\ []C1_AllAttempted

(* a query raised on the first probe of a target; a later probe of that    *)
(* target and a probe of a later target were queried after it              *)
C1_Witness ==
    /\ ExecReturned
    /\ Len(ret.queries) = 3
    /\ ret.queries[1].outcome.kind = "raise"
    /\ ret.queries[2].target = ret.queries[1].target
    /\ ret.queries[3].target # ret.queries[1].target

(* C2: whatever the providers do on a probe (can_handle or query returning *)
(* or raising), execute_plan on a valid plan returns without raising and   *)
(* its result has an entry for every target of the plan.                   *)
C2_NeverAborts ==
    (ExecEnded /\ validate(plan)) =>
        /\ ret.status = "returned"
        /\ get_targets(ret.value) = get_targets(plan)

(* C3: execute_plan appends exactly one record per (target, probe) entry   *)
(* of the plan, in plan order: while it runs the records appended so far   *)
(* are those of the entries attempted so far, and when it returns the      *)
(* collector has grown by the plan's probe count, each target's records in *)
(* that target's probe order.                                              *)
DoneBefore(tp, t, p) == SumLen(SubSeq(tp, 1, t - 1)) + (p - 1)

C3_OneRecordPerEntry ==
    /\ pc = "exec" =>
          Attempted(evidence_list, ev_base) = PlanNames(plan, DoneBefore(plan, ti, pi))
    /\ (ExecReturned /\ validate(plan)) =>
          /\ Len(evidence_list) = ret.ev_base + SumLen(plan)
          /\ Attempted(evidence_list, ret.ev_base) = PlanNames(plan, SumLen(plan))
          /\ \A i \in 1..Len(plan) :
                LET OfTarget(e) == e.target = plan[i].target
                    recs == SelectSeq(SubSeq(evidence_list, ret.ev_base + 1, Len(evidence_list)), OfTarget)
                IN [j \in 1..Len(recs) |-> recs[j].probe_name] = [j \in 1..Len(plan[i].probes) |-> plan[i].probes[j].name]

(* a run over two targets returned, with a no-provider probe, a returned   *)
(* query and a raised query                                                *)
C3_Witness ==
    /\ ExecReturned
    /\ Len(plan) = 2
    /\ SumLen(plan) = 3
    /\ \E i \in 1..Len(evidence_list) : evidence_list[i].error_message = NoProviderAvailable
    /\ \E i \in 1..Len(ret.queries) : ret.queries[i].outcome.kind = "raise"
    /\ \E i \in 1..Len(ret.queries) : ret.queries[i].outcome.kind = "dict"

(* C4: in the mapping returned, a target's list holds a pair for every     *)
(* probe that had a provider and whose query returned a result dict,       *)
(* successful or not, none for a probe without provider, in plan order.    *)
QueriesOf(qs, t) == LET OfTarget(q) == q.target = t IN SelectSeq(qs, OfTarget)

Returned(qs) == LET IsDict(q) == q.outcome.kind = "dict" IN SelectSeq(qs, IsDict)

C4_PairsPerTarget ==
    (ExecReturned /\ validate(plan)) =>
        /\ Len(ret.value) = Len(plan)
        /\ \A i \in 1..Len(plan) :
              LET qs == QueriesOf(ret.queries, plan[i].target)
                  HasProvider(p) == select_provider_for_probe(providers, p) >= 1
                  with == SelectSeq(plan[i].probes, HasProvider)
                  rs == Returned(qs)
              IN /\ ret.value[i].target = plan[i].target
                 /\ [j \in 1..Len(qs) |-> qs[j].probe] = with
                 /\ ret.value[i].pairs = [j \in 1..Len(rs) |-> [probe |-> rs[j].probe, result |-> rs[j].outcome.result]]

(* a target with two queried probes, the first result reporting failure    *)
(* and the second success, then a target whose only probe had no provider  *)
C4_Witness ==
    /\ ExecReturned
    /\ Len(plan) = 2
    /\ Len(ret.value[1].pairs) = 2
    /\ ret.value[1].pairs[1].result = FailedResult
    /\ ret.value[1].pairs[2].result = OkResult
    /\ ret.value[1].pairs[1].probe # ret.value[1].pairs[2].probe
    /\ Len(plan[2].probes) = 1
    /\ select_provider_for_probe(providers, plan[2].probes[1]) = 0
    /\ ret.value[2].pairs = << >>

(* C5: a probe that no registered provider can handle gets one record with *)
(* success = false and error "No provider available", no query is made for *)
(* it, the loop goes on with the next probe, and the target is in the      *)
(* result mapping, with an empty list when none of its probes had a        *)
(* provider.                                                               *)
C5_NoProviderStep ==
    (InProbeLoop /\ ~Capable(providers, CurProbe) /\ select_provider_for_probe(providers, CurProbe) # -1 /\ vars' # vars) =>
        /\ AppendedOne
        /\ Last(evidence_list').probe_name = CurProbe.name
        /\ Last(evidence_list').target = CurTarget
        /\ Last(evidence_list').success = FALSE
        /\ Last(evidence_list').error_message = NoProviderAvailable
        /\ queries' = queries
        /\ target_results' = target_results
        /\ NextProbe

C5_TargetStillListed ==
    ExecReturned =>
        \A i \in 1..Len(plan) :
            /\ KeyIndex(ret.value, plan[i].target) # 0
            /\ (\A j \in 1..Len(plan[i].probes) : ~Capable(providers, plan[i].probes[j])) =>
                  ret.value[KeyIndex(ret.value, plan[i].target)].pairs = << >>

C5_NoProviderAvailable == [][C5_NoProviderStep]_vars /\ []C5_TargetStillListed

(* a target whose probes all had no provider, followed by a queried probe *)
C5_Witness ==
    /\ ExecReturned
    /\ Len(plan) = 2
    /\ Len(plan[1].probes) = 2
    /\ ret.value[1].pairs = << >>
    /\ Len(ret.queries) = 1
    /\ \E i \in 1..Len(evidence_list) : evidence_list[i].error_message = NoProviderAvailable

(* C6: execute_plan on a plan with no target returns an empty mapping      *)
(* without raising, appends no record and queries no provider.             *)
C6_InvalidPlan ==
    (ExecEnded /\ ~validate(plan)) =>
        /\ ret.status = "returned"
        /\ ret.value = << >>
        /\ Len(evidence_list) = ret.ev_base
        /\ ret.queries = << >>

(* an empty plan was executed by a planner with providers registered      *)
C6_Witness ==
    /\ ExecEnded
    /\ ~validate(plan)
    /\ providers # << >>

(* C7 as claimed: every record execute_plan appends has match = false; for *)
(* a query that returned a result the record's success is the result's     *)
(* success (false when it has none) and its raw_data is the result's data  *)
(* field.                                                                  *)
C7_MatchFalse == \A i \in 1..Len(evidence_list) : evidence_list[i].match = FALSE

C7_SuccessMirrored ==
    (Queried /\ NewQuery.outcome.kind = "dict") =>
        /\ AppendedOne
        /\ Last(evidence_list').success = Get(NewQuery.outcome.result, "success", FALSE)

C7_RawDataIsDataField ==
    (Queried /\ NewQuery.outcome.kind = "dict" /\ "data" \in DOMAIN NewQuery.outcome.result) =>
        Last(evidence_list').raw_data = NewQuery.outcome.result.data

C7_AsClaimed == [][C7_SuccessMirrored /\ C7_RawDataIsDataField]_vars /\ []C7_MatchFalse

(* C7 amended: as claimed, but raw_data is the result's data field only    *)
(* when that field is present and truthy; a result whose data is absent,   *)
(* None or empty gives a record with the empty dict as raw_data.           *)
C7_RawDataOrEmpty ==
    (Queried /\ NewQuery.outcome.kind = "dict") =>
        Last(evidence_list').raw_data =
            IF "data" \in DOMAIN NewQuery.outcome.result /\ Truthy(NewQuery.outcome.result.data)
            THEN NewQuery.outcome.result.data
            ELSE EmptyDict

C7_RecordMirrorsResult == [][C7_SuccessMirrored /\ C7_RawDataOrEmpty]_vars /\ []C7_MatchFalse

(* records for a successful result with data, a failed result whose data   *)
(* is None and a result without success and data fields                    *)
C7_Witness ==
    /\ ExecReturned
    /\ Len(ret.queries) = 3
    /\ {ret.queries[i].outcome : i \in 1..3} = {[kind |-> "dict", result |-> r] : r \in ResultDict}
    /\ \E i \in 1..Len(evidence_list) : evidence_list[i].success /\ evidence_list[i].raw_data = OkResult.data

(* C8: for max_probes_per_target >= 0, create_scan_plan gives each planned *)
(* target exactly the probes among the first max_probes_per_target of the  *)
(* fingerprint that some registered provider can handle, in fingerprint    *)
(* order; later probes are never planned.                                  *)
FirstN(s, n) == [j \in 1..(IF n < Len(s) THEN n ELSE Len(s)) |-> s[j]]

C8_TruncateThenFilter ==
    (ret.op = "create_scan_plan" /\ ret.status = "returned" /\ ret.max_probes_per_target >= 0) =>
        LET CanRun(p) == Capable(providers, p)
            expected == SelectSeq(FirstN(ret.probes, ret.max_probes_per_target), CanRun)
        IN /\ \A i \in 1..Len(plan) : plan[i].probes = expected
           /\ \A i \in 1..Len(plan) : \E j \in 1..Len(ret.targets) : ret.targets[j] = plan[i].target

(* the cut excluded the only probe a provider can handle: nothing planned  *)
C8_Witness ==
    /\ ret.op = "create_scan_plan"
    /\ ret.status = "returned"
    /\ ret.max_probes_per_target = 1
    /\ Len(ret.probes) = 2
    /\ ret.targets # << >>
    /\ ~Capable(providers, ret.probes[1])
    /\ Capable(providers, ret.probes[2])
    /\ plan = << >>

(* C9 as claimed: in every ScanPlan every listed probe is handled by a     *)
(* registered provider and no target has an empty probe list.              *)
PlanWellFormed(tp, provs) ==
    \A i \in 1..Len(tp) :
        /\ tp[i].probes # << >>
        /\ \A j \in 1..Len(tp[i].probes) : Capable(provs, tp[i].probes[j])

C9_EveryScanPlan == PlanWellFormed(plan, providers)

(* C9 amended: every ScanPlan returned by create_scan_plan lists only      *)
(* probes that a registered provider handles and no target with an empty   *)
(* probe list; a target with no surviving probe is omitted.                *)
C9_CreatedPlan ==
    (ret.op = "create_scan_plan" /\ ret.status = "returned") =>
        /\ PlanWellFormed(plan, providers)
        /\ \A j \in 1..Len(ret.targets) :
              (\E k \in 1..Len(PySliceTo(ret.probes, ret.max_probes_per_target)) : Capable(providers, PySliceTo(ret.probes, ret.max_probes_per_target)[k]))
                  <=> KeyIndex(plan, ret.targets[j]) # 0

(* two targets asked for, no probe survives: both omitted *)
C9_Witness ==
    /\ ret.op = "create_scan_plan"
    /\ ret.status = "returned"
    /\ Len(ret.targets) = 2
    /\ ret.probes # << >>
    /\ ret.max_probes_per_target >= Len(ret.probes)
    /\ providers # << >>
    /\ plan = << >>

(* C10: select_provider_for_probe returns the earliest registered provider *)
(* whose can_handle is true, and None when there is none, also with no     *)
(* provider registered.                                                    *)
C10_FirstRegistered ==
    (ret.op = "select_provider_for_probe" /\ ret.status = "returned") =>
        IF Capable(providers, ret.probe)
        THEN /\ ret.value \in 1..Len(providers)
             /\ can_handle(providers[ret.value], ret.probe) = "true"
             /\ \A i \in 1..(ret.value - 1) : can_handle(providers[i], ret.probe) # "true"
        ELSE ret.value = 0

(* two registered providers can both handle the probe *)
C10_Witness ==
    /\ ret.op = "select_provider_for_probe"
    /\ ret.status = "returned"
    /\ Len(providers) = 2
    /\ providers[1] # providers[2]
    /\ can_handle(providers[1], ret.probe) = "true"
    /\ can_handle(providers[2], ret.probe) = "true"

---------------------------------------------------------------------------
(* ScanPlan.validate and Planner.optimize_plan, called by the caller on    *)
(* the plan it built                                                       *)

(* the keys of provider_probes after the loop over the probes: the         *)
(* providers selected, in the order they are first selected; a probe for   *)
(* which select_provider_for_probe gives None adds no key                  *)
RECURSIVE ProviderKeys(_, _, _)
ProviderKeys(provs, probes, keys) ==
    IF probes = << >> THEN keys
    ELSE LET k == select_provider_for_probe(provs, Head(probes)) IN
         ProviderKeys(provs, Tail(probes),
                      IF k >= 1 /\ \A j \in 1..Len(keys) : keys[j] # k
                      THEN Append(keys, k) ELSE keys)

(* provider_probes[provider]: the probes the provider at position k was    *)
(* selected for, in input order                                            *)
provider_probes(provs, probes, k) ==
    LET Selected(p) == select_provider_for_probe(provs, p) = k IN
    SelectSeq(probes, Selected)

(* optimized_probes.extend(probe_list) for every key from position i on *)
RECURSIVE ExtendFrom(_, _, _, _)
ExtendFrom(provs, probes, keys, i) ==
    IF i > Len(keys) THEN << >>
    ELSE provider_probes(provs, probes, keys[i]) \o ExtendFrom(provs, probes, keys, i + 1)

(* Defective variant of optimized_probes: the probes with a provider are   *)
(* kept in input order, not grouped                                        *)
optimized_probes_Ungrouped(provs, probes) ==
    LET HasProvider(p) == select_provider_for_probe(provs, p) >= 1 IN
    SelectSeq(probes, HasProvider)

(* Defective variant of optimized_probes: the group of the provider met    *)
(* last comes first                                                        *)
optimized_probes_LastGroupFirst(provs, probes) ==
    LET keys == ProviderKeys(provs, probes, << >>)
        reversed == [i \in 1..Len(keys) |-> keys[Len(keys) + 1 - i]]
    IN ExtendFrom(provs, probes, reversed, 1)

(* optimized_probes of one target *)
optimized_probes(provs, probes) ==
    ExtendFrom(provs, probes, ProviderKeys(provs, probes, << >>), 1)

(* the loop over plan.target_probes.items(), filling optimized_plan *)
RECURSIVE OptimizeTargets(_, _, _)
OptimizeTargets(provs, tp, optimized_plan) ==
    IF tp = << >> THEN optimized_plan
    ELSE LET op == optimized_probes(provs, Head(tp).probes) IN
         OptimizeTargets(provs, Tail(tp),
                         IF op # << >>
                         THEN add_target(optimized_plan, Head(tp).target, op)
                         ELSE optimized_plan)

(* a can_handle call made while selecting for some probe of the plan raises *)
SelectRaises(provs, tp) ==
    \E i \in 1..Len(tp) : \E j \in 1..Len(tp[i].probes) :
        select_provider_for_probe(provs, tp[i].probes[j]) = -1

(* Defective variant of optimize_plan: a probe without provider is an error *)
optimize_plan_Strict(provs, tp) ==
    IF \E i \in 1..Len(tp) : \E j \in 1..Len(tp[i].probes) : select_provider_for_probe(provs, tp[i].probes[j]) <= 0
    THEN [status |-> "raised", value |-> NewScanPlan]
    ELSE [status |-> "returned", value |-> OptimizeTargets(provs, tp, NewScanPlan)]

(* optimize_plan: the new plan, or a raise when a can_handle call raised *)
optimize_plan(provs, tp) ==
    IF SelectRaises(provs, tp)
    THEN [status |-> "raised", value |-> NewScanPlan]
    ELSE [status |-> "returned", value |-> OptimizeTargets(provs, tp, NewScanPlan)]

(* plan.validate() *)
ValidatePlan ==
    /\ pc = "idle"
    /\ evidence_list = << >>
    /\ ret' = [op |-> "validate", status |-> "returned", value |-> validate(plan)]
    /\ UNCHANGED <<providers, plan, evidence_list, pc, exec_locals>>

(* planner.optimize_plan(plan): a new ScanPlan is returned, the argument   *)
(* is left as it was                                                       *)
OptimizePlan ==
    /\ pc = "idle"
    /\ evidence_list = << >>
    /\ LET r == optimize_plan(providers, plan) IN
       ret' = [op |-> "optimize_plan", status |-> r.status, value |-> r.value]
    /\ UNCHANGED <<providers, plan, evidence_list, pc, exec_locals>>

(* provider_delay in the unit of the default, 1.0 *)
ProviderDelay == 0..MaxDelay

(* Planner.estimate_scan_time(plan, provider_delay) *)
EstimateScanTime(provider_delay) ==
    /\ pc = "idle"
    /\ evidence_list = << >>
    /\ ret' = [op |-> "estimate_scan_time", status |-> "returned",
               value |-> estimate_scan_time(plan, provider_delay),
               args |-> <<provider_delay>>]
    /\ UNCHANGED <<providers, plan, evidence_list, pc, exec_locals>>

(* plan.get_probes_for_target(target) *)
GetProbesForTarget(target) ==
    /\ pc = "idle"
    /\ evidence_list = << >>
    /\ plan' = target_probes_after_get(plan, target)
    /\ ret' = [op |-> "get_probes_for_target", status |-> "returned",
               value |-> get_probes_for_target(plan, target),
               args |-> <<target>>]
    /\ UNCHANGED <<providers, evidence_list, pc, exec_locals>>

(* The caller builds a plan by hand, target by target, with probe lists of *)
(* up to MaxPlanProbes probes, and validates or optimizes it.              *)
PlanProbeLists == SeqUpTo(Probe, MaxPlanProbes)

NextPlan ==
    \/ \E provider \in BaseProvider : RegisterProvider(provider)
    \/ \E target \in Targets, probes \in PlanProbeLists : AddTarget(target, probes)
    \/ ValidatePlan
    \/ OptimizePlan
    \/ \E provider_delay \in ProviderDelay : EstimateScanTime(provider_delay)
    \/ \E target \in Targets : GetProbesForTarget(target)

SpecPlan == Init /\ [][NextPlan]_vars

---------------------------------------------------------------------------
(* C11: validate() returns true if and only if the plan has at least one   *)
(* target entry, whatever that entry's probe list: false for a freshly     *)
(* constructed plan, true after one add_target call; it never raises.      *)
C11_ValidateIffTarget ==
    ret.op = "validate" =>
        /\ ret.status = "returned"
        /\ ret.value = (Len(get_targets(plan)) >= 1)
        /\ plan = NewScanPlan => ret.value = FALSE
        /\ (Len(plan) = 1 /\ plan[1].probes # << >>) => ret.value = TRUE

(* validate() called right after one add_target with a non-empty list *)
C11_Witness ==
    /\ ret.op = "validate"
    /\ ret.value = TRUE
    /\ Len(plan) = 1
    /\ plan[1].probes # << >>

(* validate() called on a freshly constructed plan *)
C11_WitnessFresh ==
    /\ ret.op = "validate"
    /\ ret.value = FALSE
    /\ plan = NewScanPlan

---------------------------------------------------------------------------
(* Vocabulary for optimize_plan *)

OptimizeReturned == ret.op = "optimize_plan" /\ ret.status = "returned"

(* every probe of the plan has a selectable provider *)
AllSelectable(provs, tp) ==
    \A i \in 1..Len(tp) : \A j \in 1..Len(tp[i].probes) :
        select_provider_for_probe(provs, tp[i].probes[j]) >= 1

(* the first position of list L holding a probe of the same provider as L[i] *)
FirstOfGroup(provs, L, i) ==
    CHOOSE j \in 1..i :
        /\ select_provider_for_probe(provs, L[j]) = select_provider_for_probe(provs, L[i])
        /\ \A k \in 1..(j - 1) : select_provider_for_probe(provs, L[k]) # select_provider_for_probe(provs, L[i])

(* M is L rearranged: groups by provider, in the order of each group's     *)
(* first probe in L, the probes of a group in their order in L             *)
Regrouped(provs, L, M) ==
    /\ Len(M) = Len(L)
    /\ \E f \in [1..Len(L) -> 1..Len(L)] :
          /\ \A i, j \in 1..Len(L) : i # j => f[i] # f[j]
          /\ \A i \in 1..Len(L) : M[i] = L[f[i]]
          /\ \A i, j \in 1..Len(L) : i < j =>
                \/ FirstOfGroup(provs, L, f[i]) < FirstOfGroup(provs, L, f[j])
                \/ /\ FirstOfGroup(provs, L, f[i]) = FirstOfGroup(provs, L, f[j])
                   /\ f[i] < f[j]
    /\ \A i, j \in 1..Len(M) :
          (i < j /\ select_provider_for_probe(provs, M[i]) = select_provider_for_probe(provs, M[j])) =>
              \A k \in i..j : select_provider_for_probe(provs, M[k]) = select_provider_for_probe(provs, M[i])

(* the targets of a plan whose probe list is not empty, in plan order *)
TargetsWithProbes(tp) ==
    LET HasProbes(e) == e.probes # << >> IN get_targets(SelectSeq(tp, HasProbes))

RegroupedPerTarget ==
    /\ \A i \in 1..Len(plan) :
          Regrouped(providers, plan[i].probes, get_probes_for_target(ret.value, plan[i].target))
    /\ SumLen(ret.value) = SumLen(plan)

(* C12 as claimed: when every probe of the input plan has a selectable     *)
(* provider, optimize_plan returns a plan with the same targets, each      *)
(* target's list regrouped by provider, the total probe count unchanged.   *)
C12_AsClaimed ==
    (OptimizeReturned /\ AllSelectable(providers, plan)) =>
        /\ {get_targets(ret.value)[i] : i \in 1..Len(ret.value)} = {get_targets(plan)[i] : i \in 1..Len(plan)}
        /\ RegroupedPerTarget

(* C12 amended: when every probe of the input plan has a selectable        *)
(* provider, optimize_plan returns a plan with the input's targets that    *)
(* have at least one probe, in input order (a target with an empty probe   *)
(* list is absent from the result); each target's probe list is a          *)
(* permutation of the input list in which the probes of one provider are   *)
(* contiguous, in their input order, the groups in the order their         *)
(* providers are first met; the total probe count is unchanged.            *)
C12_RegroupedByProvider ==
    (OptimizeReturned /\ AllSelectable(providers, plan)) =>
        /\ get_targets(ret.value) = TargetsWithProbes(plan)
        /\ RegroupedPerTarget

(* providers alternate in the input list: the optimized list differs *)
C12_Witness ==
    /\ OptimizeReturned
    /\ AllSelectable(providers, plan)
    /\ \E i \in 1..Len(plan) :
          /\ Len(plan[i].probes) = 3
          /\ get_probes_for_target(ret.value, plan[i].target) # plan[i].probes

---------------------------------------------------------------------------
(* how many times probe p occurs in list L *)
Count(L, p) == Cardinality({j \in 1..Len(L) : L[j] = p})

(* selecting a provider for the probe raises: a provider's can_handle      *)
(* raises before any provider answered true                                *)
CanHandleRaises(provs, probe) ==
    \E i \in 1..Len(provs) :
        /\ can_handle(provs[i], probe) = "raise"
        /\ \A j \in 1..(i - 1) : can_handle(provs[j], probe) = "false"

(* C13: optimize_plan never raises because a probe has no provider (it     *)
(* raises only when a can_handle call raises); in the plan it returns, a   *)
(* probe no registered provider can be selected for is dropped, the other  *)
(* probes of that target are all kept, and a target all of whose probes    *)
(* are dropped has no probes.                                              *)
C13_DropsUnassigned ==
    ret.op = "optimize_plan" =>
        /\ ret.status = "raised" <=>
              \E i \in 1..Len(plan) : \E j \in 1..Len(plan[i].probes) : CanHandleRaises(providers, plan[i].probes[j])
        /\ ret.status = "returned" =>
              \A i \in 1..Len(plan) :
                 LET kept == get_probes_for_target(ret.value, plan[i].target) IN
                 /\ \A p \in Probe :
                       Count(kept, p) = IF Capable(providers, p) THEN Count(plan[i].probes, p) ELSE 0
                 /\ (\A j \in 1..Len(plan[i].probes) : ~Capable(providers, plan[i].probes[j])) => kept = << >>

(* one target loses a probe and keeps another, one target loses them all *)
C13_Witness ==
    /\ OptimizeReturned
    /\ providers # << >>
    /\ Len(plan) = 2
    /\ Len(plan[1].probes) = 2
    /\ Len(get_probes_for_target(ret.value, plan[1].target)) = 1
    /\ Len(plan[2].probes) = 1
    /\ get_probes_for_target(ret.value, plan[2].target) = << >>

---------------------------------------------------------------------------
(* Evaluator: engine/evaluator.py.  Its two functions are static and keep  *)
(* no state: a call reads its arguments and returns.                       *)
(*                                                                         *)
(* The values found in a result are tagged with their Python type: None,   *)
(* str, list or dict (a dict is a function from its keys).  The result     *)
(* itself is a dict whose success field, when present, is a bool.  The     *)
(* data field is None or a dict, the items container None or a list, and   *)
(* the value at the end of a field's path None or a str.                   *)


(* v.get(k, default): AttributeError unless v is a dict; an exception      *)
(* raised earlier in a chain of calls passes through                       *)
DictGet(v, k, default) ==
    IF v.t = "raise" THEN v
    ELSE IF v.t # "dict" THEN Raising("AttributeError")
    ELSE IF k \in DOMAIN v.d THEN v.d[k] ELSE default

(* the extraction rule of a field: the keys followed from the first item;  *)
(* no rule for a field that is not understood                              *)
FieldPath(field) ==
    IF field = "headers.server" THEN <<"data", "http", "head", "server">>
    ELSE IF field = "certificate.serial" THEN <<"data", "certificate", "serial">>
    ELSE << >>

(* item.get(k1, {}).get(k2, {}) ... .get(kn) *)
RECURSIVE GetPath(_, _)
GetPath(v, path) ==
    IF Len(path) = 1 THEN DictGet(v, path[1], NoneV)
    ELSE GetPath(DictGet(v, path[1], EmptyDictV), Tail(path))

(* field_value after the extraction block: `"items" in data` and           *)
(* `len(data["items"])` raise TypeError on None                            *)
ExtractField(data, field) ==
    IF data.t = "None" THEN Raising("TypeError")
    ELSE IF "items" \notin DOMAIN data.d THEN NoneV
    ELSE IF data.d["items"].t = "None" THEN Raising("TypeError")
    ELSE IF Len(data.d["items"].l) = 0 THEN NoneV
    ELSE IF FieldPath(field) = << >> THEN NoneV
    ELSE GetPath(data.d["items"].l[1], FieldPath(field))

(* needle in hay, on strings *)
Contains(needle, hay) ==
    \E i \in 1..(Len(hay) - Len(needle) + 1) : SubSeq(hay, i, i + Len(needle) - 1) = needle

(* Regular expressions, for the patterns built from literal characters,    *)
(* "." (any character), a leading "^" and a trailing "$".                  *)
CharAt(s, i) == SubSeq(s, i, i)

(* re.error at compilation: a quantifier with nothing to repeat, or an     *)
(* unbalanced parenthesis                                                  *)
ReError(pattern) ==
    \/ Len(pattern) >= 1 /\ CharAt(pattern, 1) \in {"*", "+", "?"}
    \/ Cardinality({i \in 1..Len(pattern) : CharAt(pattern, i) = "("}) # Cardinality({i \in 1..Len(pattern) : CharAt(pattern, i) = ")"})

AnchoredStart(pattern) == Len(pattern) >= 1 /\ CharAt(pattern, 1) = "^"
AnchoredEnd(pattern) == Len(pattern) >= 1 /\ CharAt(pattern, Len(pattern)) = "$"

(* the pattern without its anchors *)
ReBody(pattern) ==
    SubSeq(pattern, IF AnchoredStart(pattern) THEN 2 ELSE 1, IF AnchoredEnd(pattern) THEN Len(pattern) - 1 ELSE Len(pattern))

(* the body matches s from position i on *)
MatchesAt(body, s, i) ==
    /\ i - 1 + Len(body) <= Len(s)
    /\ \A k \in 1..Len(body) : CharAt(body, k) = "." \/ CharAt(body, k) = CharAt(s, i + k - 1)

(* Defective variant of re_search: re.match, the pattern must match at the *)
(* start of the string                                                     *)
re_match(pattern, s) ==
    /\ MatchesAt(ReBody(pattern), s, 1)
    /\ AnchoredEnd(pattern) => Len(ReBody(pattern)) = Len(s)

(* bool(re.search(pattern, s)) for a pattern that compiles *)
re_search(pattern, s) ==
    \E i \in 1..(Len(s) + 1) :
        /\ AnchoredStart(pattern) => i = 1
        /\ MatchesAt(ReBody(pattern), s, i)
        /\ AnchoredEnd(pattern) => i - 1 + Len(ReBody(pattern)) = Len(s)

(* what a call of evaluate_probe gives: the tuple returned, or a raise *)
ProbeVerdict(match, evidence) == [status |-> "returned", match |-> match, evidence |-> evidence]
ProbeRaised(exc) == [status |-> "raised", exc |-> exc]

UnknownError == "Unknown error"
FieldNotFound == "Field not found in response"

(* the match logic applied to a field value that was found (a str) *)
ApplyMatch(probe, field_value) ==
    IF probe.match_type = "exact"
    THEN ProbeVerdict(field_value.s = probe.value, probe.field \o "=" \o Format(field_value))
    ELSE IF probe.match_type = "contains"
    THEN ProbeVerdict(Contains(probe.value, field_value.s), probe.field \o "=" \o Format(field_value))
    ELSE IF probe.match_type = "regex"
    THEN IF ReError(probe.value) THEN ProbeRaised("re.error")
         ELSE ProbeVerdict(re_search(probe.value, field_value.s), probe.field \o "=" \o Format(field_value))
    ELSE ProbeVerdict(FALSE, "Unknown match type: " \o probe.match_type)

(* evaluate_probe(probe_result, probe) *)
evaluate_probe(probe_result, probe) ==
    IF ~Get(probe_result, "success", FALSE)
    THEN ProbeVerdict(FALSE, "Probe failed: " \o Format(Get(probe_result, "error", StrV(UnknownError))))
    ELSE LET field_value == ExtractField(Get(probe_result, "data", EmptyDictV), probe.field) IN
         IF field_value.t = "raise" THEN ProbeRaised(field_value.exc)
         ELSE IF field_value.t = "None" THEN ProbeVerdict(FALSE, FieldNotFound)
         ELSE ApplyMatch(probe, field_value)

(* "; ".join(texts) *)
RECURSIVE Join(_)
Join(texts) ==
    IF texts = << >> THEN ""
    ELSE IF Len(texts) = 1 THEN texts[1]
    ELSE texts[1] \o "; " \o Join(Tail(texts))

(* Defective variant of IndividualResults: the loop stops at the first     *)
(* probe that did not match                                                *)
RECURSIVE IndividualResultsShortCircuit(_, _)
IndividualResultsShortCircuit(probe_results, individual_results) ==
    IF probe_results = << >> THEN [status |-> "returned", value |-> individual_results]
    ELSE LET r == evaluate_probe(Head(probe_results).result, Head(probe_results).probe) IN
         IF r.status = "raised" THEN [status |-> "raised", exc |-> r.exc]
         ELSE IF ~r.match THEN [status |-> "returned", value |-> Append(individual_results, [probe |-> Head(probe_results).probe.name, match |-> r.match, evidence |-> r.evidence])]
         ELSE IndividualResultsShortCircuit(Tail(probe_results), Append(individual_results, [probe |-> Head(probe_results).probe.name, match |-> r.match, evidence |-> r.evidence]))

(* the loop over probe_results: one record per pair appended to            *)
(* individual_results; an exception of evaluate_probe is not caught        *)
RECURSIVE IndividualResults(_, _)
IndividualResults(probe_results, individual_results) ==
    IF probe_results = << >> THEN [status |-> "returned", value |-> individual_results]
    ELSE LET r == evaluate_probe(Head(probe_results).result, Head(probe_results).probe) IN
         IF r.status = "raised" THEN [status |-> "raised", exc |-> r.exc]
         ELSE IndividualResults(Tail(probe_results),
                                Append(individual_results,
                                       [probe |-> Head(probe_results).probe.name,
                                        match |-> r.match, evidence |-> r.evidence]))

(* Defective variant of OverallMatch: a match_logic that is neither "all"  *)
(* nor "any" is read as "any"                                              *)
OverallMatchOtherIsAny(match_logic, individual_results) ==
    IF match_logic = "all" THEN \A i \in 1..Len(individual_results) : individual_results[i].match
    ELSE \E i \in 1..Len(individual_results) : individual_results[i].match

(* Defective variant of OverallMatch: "any" is read as "all" *)
OverallMatchAnyIsAll(match_logic, individual_results) ==
    \A i \in 1..Len(individual_results) : individual_results[i].match

(* overall_match: all(...) for "all", any(...) for "any", all(...) else *)
OverallMatch(match_logic, individual_results) ==
    IF match_logic = "all" THEN \A i \in 1..Len(individual_results) : individual_results[i].match
    ELSE IF match_logic = "any" THEN \E i \in 1..Len(individual_results) : individual_results[i].match
    ELSE \A i \in 1..Len(individual_results) : individual_results[i].match

(* evaluate_fingerprint(probe_results, fingerprint): the dict returned, or *)
(* the exception of the evaluate_probe call that raised                    *)
evaluate_fingerprint(probe_results, fingerprint) ==
    LET ir == IndividualResults(probe_results, << >>) IN
    IF ir.status = "raised" THEN [status |-> "raised", exc |-> ir.exc]
    ELSE LET individual_results == ir.value
             all_evidence == [i \in 1..Len(individual_results) |-> individual_results[i].evidence]
             Matched(r) == r.match
             matched == SelectSeq(individual_results, Matched)
         IN [status |-> "returned",
             value |-> [fingerprint_id |-> fingerprint.fingerprint_id,
                        overall_match |-> OverallMatch(fingerprint.match_logic, individual_results),
                        probe_results |-> individual_results,
                        evidence |-> Join(all_evidence),
                        matched_probes |-> [i \in 1..Len(matched) |-> matched[i].probe]]]

---------------------------------------------------------------------------
(* The arguments the evaluator is called with *)


(* the values of a result's data field *)
EvalData ==
    { NoneV,
      EmptyDictV,
      DictV([total |-> NoneV]),
      DictV([items |-> NoneV]),
      Items(<< >>),
      Items(<<NoneV>>),
      Items(<<EmptyDictV>>),
      Items(<<DictV([data |-> NoneV])>>),
      Items(<<DictV([data |-> EmptyDictV])>>),
      Items(<<DictV([data |-> DictV([http |-> EmptyDictV])])>>),
      Items(<<DictV([data |-> DictV([http |-> DictV([head |-> EmptyDictV])])])>>),
      Items(<<HttpItem(NoneV)>>),
      Items(<<HttpItem(StrV(ApacheServer))>>),
      Items(<<HttpItem(StrV(NginxServer))>>),
      Items(<<CertItem(StrV(CertSerial))>>),
      Items(<<BothItem>>),
      Items(<<HttpItem(StrV(NginxServer)), HttpItem(StrV(ApacheServer))>>),
      Items(<<EmptyDictV, BothItem>>) }

(* the values of a result's error field *)
EvalError == {NoneV, StrV(""), StrV("Timeout")}

(* result dicts: with and without each of the three fields *)
EvalResult ==
    {[success |-> TRUE, data |-> d, error |-> NoneV] : d \in EvalData}
    \cup {[success |-> TRUE, data |-> d] : d \in {EmptyDictV, Items(<<BothItem>>)}}
    \cup {[success |-> TRUE]}
    \cup {[success |-> FALSE, data |-> NoneV, error |-> e] : e \in EvalError}
    \cup {[success |-> FALSE, error |-> e] : e \in EvalError}
    \cup {[success |-> FALSE]}
    \cup {[error |-> e] : e \in EvalError}
    \cup {[data |-> Items(<<BothItem>>)]}

EvalMatchType == {"exact", "contains", "regex", "fuzzy"}

(* probe values, read as a literal or as a pattern *)
EvalValue == {ApacheServer, "Apache", "pache", "^Apache", "^pache", "2.4.41$", "A.ache", "", "(", CertSerial}

(* probes on each field, of each match type, with each value *)
EvalProbe ==
    {[p EXCEPT !.match_type = m, !.value = v] : p \in Probe, m \in EvalMatchType, v \in EvalValue}

Fingerprint(match_logic) == [fingerprint_id |-> "test-fp-001", match_logic |-> match_logic]

MatchLogic == {"all", "any", "custom"}

(* (probe, result) pairs as execute_plan returns them *)
Pair(probe, result) == [probe |-> probe, result |-> result]

EvalPair ==
    { Pair(HttpProbe, [success |-> TRUE, data |-> Items(<<BothItem>>), error |-> NoneV]),
      Pair(TlsProbe, [success |-> TRUE, data |-> Items(<<BothItem>>), error |-> NoneV]),
      Pair(HttpProbe, [success |-> TRUE, data |-> Items(<<HttpItem(StrV(NginxServer))>>), error |-> NoneV]),
      Pair(TlsProbe, [success |-> FALSE, data |-> NoneV, error |-> StrV("Timeout")]),
      Pair(DnsProbe, [success |-> TRUE, data |-> Items(<<BothItem>>), error |-> NoneV]),
      Pair([HttpProbe EXCEPT !.match_type = "fuzzy"], [success |-> TRUE, data |-> Items(<<BothItem>>), error |-> NoneV]),
      Pair(HttpProbe, [success |-> TRUE, data |-> NoneV, error |-> NoneV]) }

MaxPairs == 2

EvalPairLists == SeqUpTo(EvalPair, MaxPairs)

(* The two functions are static and keep nothing from one call to the     *)
(* next: a call is explored once, made by a caller that has made no call   *)
(* before it.                                                              *)

(* Evaluator.evaluate_probe(probe_result, probe) *)
EvaluateProbe(probe_result, probe) ==
    /\ pc = "idle"
    /\ ret = NoValue
    /\ LET r == evaluate_probe(probe_result, probe) IN
       ret' = IF r.status = "returned"
              THEN [op |-> "evaluate_probe", status |-> "returned", probe_result |-> probe_result, probe |-> probe, match |-> r.match, evidence |-> r.evidence]
              ELSE [op |-> "evaluate_probe", status |-> "raised", probe_result |-> probe_result, probe |-> probe, exc |-> r.exc]
    /\ UNCHANGED <<providers, plan, evidence_list, pc, exec_locals>>

(* Evaluator.evaluate_fingerprint(probe_results, fingerprint) *)
EvaluateFingerprint(probe_results, fingerprint) ==
    /\ pc = "idle"
    /\ ret = NoValue
    /\ LET r == evaluate_fingerprint(probe_results, fingerprint) IN
       ret' = IF r.status = "returned"
              THEN [op |-> "evaluate_fingerprint", status |-> "returned", probe_results |-> probe_results, fingerprint |-> fingerprint, value |-> r.value]
              ELSE [op |-> "evaluate_fingerprint", status |-> "raised", probe_results |-> probe_results, fingerprint |-> fingerprint, exc |-> r.exc]
    /\ UNCHANGED <<providers, plan, evidence_list, pc, exec_locals>>

NextEval ==
    \/ \E probe_result \in EvalResult, probe \in EvalProbe : EvaluateProbe(probe_result, probe)
    \/ \E probe_results \in EvalPairLists, match_logic \in MatchLogic : EvaluateFingerprint(probe_results, Fingerprint(match_logic))

SpecEval == Init /\ [][NextEval]_vars

---------------------------------------------------------------------------
(* Vocabulary for the evaluator's properties *)

ProbeCall == ret.op = "evaluate_probe"
ProbeReturned == ProbeCall /\ ret.status = "returned"

(* the result reports success *)
Succeeded(r) == "success" \in DOMAIN r /\ r.success

UnderstoodField == {"headers.server", "certificate.serial"}

(* a key of the path is absent from the nested dicts of the item *)
RECURSIVE PathMissing(_, _)
PathMissing(v, path) ==
    /\ path # << >>
    /\ v.t = "dict"
    /\ path[1] \notin DOMAIN v.d \/ PathMissing(v.d[path[1]], Tail(path))

(* the path leads through nested dicts to a str *)
RECURSIVE PathToStr(_, _)
PathToStr(v, path) ==
    IF path = << >> THEN v.t = "str"
    ELSE v.t = "dict" /\ path[1] \in DOMAIN v.d /\ PathToStr(v.d[path[1]], Tail(path))

RECURSIVE Walk(_, _)
Walk(v, path) == IF path = << >> THEN v ELSE Walk(v.d[path[1]], Tail(path))

(* the data field holds a non-empty items list *)
HasItems(r) ==
    /\ "data" \in DOMAIN r
    /\ r.data.t = "dict"
    /\ "items" \in DOMAIN r.data.d
    /\ r.data.d["items"].t = "list"
    /\ Len(r.data.d["items"].l) > 0

FirstItem(r) == r.data.d["items"].l[1]

(* the cases in which no field value can be extracted: data missing or     *)
(* null, no items container, empty items, nested path missing in the first *)
(* item, field outside the understood set                                  *)
NoExtractableField(r, probe) ==
    \/ "data" \notin DOMAIN r
    \/ r.data.t = "None"
    \/ r.data.t = "dict" /\ "items" \notin DOMAIN r.data.d
    \/ r.data.t = "dict" /\ "items" \in DOMAIN r.data.d /\ r.data.d["items"].t = "list" /\ Len(r.data.d["items"].l) = 0
    \/ HasItems(r) /\ probe.field \in UnderstoodField /\ PathMissing(FirstItem(r), FieldPath(probe.field))
    \/ probe.field \notin UnderstoodField

(* the first item holds a str for the probe's field; that value *)
HasField(r, probe) ==
    /\ HasItems(r)
    /\ probe.field \in UnderstoodField
    /\ PathToStr(FirstItem(r), FieldPath(probe.field))

FieldOf(r, probe) == Walk(FirstItem(r), FieldPath(probe.field)).s

(* C14: on a result whose success is false or absent, evaluate_probe       *)
(* returns matched = false and the text "Probe failed: " followed by the   *)
(* result's error, a missing, null or empty error being rendered as        *)
(* "Unknown error".                                                        *)
C14_FailedProbe ==
    (ProbeCall /\ ~Succeeded(ret.probe_result)) =>
        /\ ret.status = "returned"
        /\ ret.match = FALSE
        /\ ret.evidence = "Probe failed: " \o
              (IF "error" \notin DOMAIN ret.probe_result THEN "Unknown error"
               ELSE IF ret.probe_result.error.t = "None" THEN "Unknown error"
               ELSE IF ret.probe_result.error.s = "" THEN "Unknown error"
               ELSE ret.probe_result.error.s)

(* C15: on a successful result from which no field value can be extracted  *)
(* evaluate_probe returns (false, "Field not found in response") and does  *)
(* not raise.                                                              *)
C15_FieldNotFound ==
    (ProbeCall /\ Succeeded(ret.probe_result) /\ NoExtractableField(ret.probe_result, ret.probe)) =>
        /\ ret.status = "returned"
        /\ ret.match = FALSE
        /\ ret.evidence = "Field not found in response"

---------------------------------------------------------------------------
(* needle occurs in hay *)
Substring(needle, hay) == \E i \in 1..(Len(hay) + 1), j \in 0..Len(hay) : SubSeq(hay, i, j) = needle

(* the pattern (literal characters, ".", leading "^", trailing "$") is     *)
(* found somewhere in v                                                    *)
Found(pattern, v) ==
    LET from == IF Len(pattern) >= 1 /\ SubSeq(pattern, 1, 1) = "^" THEN 2 ELSE 1
        to == IF Len(pattern) >= 1 /\ SubSeq(pattern, Len(pattern), Len(pattern)) = "$" THEN Len(pattern) - 1 ELSE Len(pattern)
    IN \E i \in 1..(Len(v) + 1), j \in 0..Len(v) :
          /\ j - i = to - from
          /\ \A k \in 0..(to - from) : SubSeq(pattern, from + k, from + k) \in {".", SubSeq(v, i + k, i + k)}
          /\ from = 2 => i = 1
          /\ to < Len(pattern) => j = Len(v)

(* C16: for a successful result whose field value v is read from the first *)
(* item of the items container, evaluate_probe returns matched = true iff  *)
(* the relation of probe.match_type holds (exact: v equals probe.value;    *)
(* contains: probe.value is a substring of v; regex: the pattern           *)
(* probe.value is found anywhere in v), with the evidence text             *)
(* "{probe.field}={v}" whether or not it matched.  (A pattern that does    *)
(* not compile makes re.search raise.)                                     *)
C16_MatchRelation ==
    (ProbeCall /\ Succeeded(ret.probe_result) /\ HasField(ret.probe_result, ret.probe)
        /\ ret.probe.match_type \in {"exact", "contains", "regex"}
        /\ ~(ret.probe.match_type = "regex" /\ ReError(ret.probe.value))) =>
        LET v == FieldOf(ret.probe_result, ret.probe) IN
        /\ ret.status = "returned"
        /\ ret.evidence = ret.probe.field \o "=" \o v
        /\ ret.probe.match_type = "exact" => (ret.match <=> v = ret.probe.value)
        /\ ret.probe.match_type = "contains" => (ret.match <=> Substring(ret.probe.value, v))
        /\ ret.probe.match_type = "regex" => (ret.match <=> Found(ret.probe.value, v))

(* a pattern anchored at the end only is found in a value that does not    *)
(* begin with it                                                           *)
C16_Witness ==
    /\ ProbeReturned
    /\ ret.probe.match_type = "regex"
    /\ ret.probe.value = "2.4.41$"
    /\ ret.match = TRUE
    /\ ret.evidence = "headers.server=Apache/2.4.41"

(* the value of the first of two items decides: no match *)
C16_WitnessFirstItem ==
    /\ ProbeReturned
    /\ ret.probe.match_type = "contains"
    /\ ret.probe.value = "Apache"
    /\ Succeeded(ret.probe_result)
    /\ HasItems(ret.probe_result)
    /\ Len(ret.probe_result.data.d["items"].l) = 2
    /\ ret.match = FALSE
    /\ ret.evidence = "headers.server=Nginx"

(* C17: with a match_type other than exact, contains or regex,             *)
(* evaluate_probe on a successful result with an extractable field returns *)
(* (false, "Unknown match type: {match_type}") and never raises; the       *)
(* failed-probe text and the field-not-found text come first: on a failed  *)
(* result it returns the failed text, on a successful result without the   *)
(* field the field-not-found text.                                         *)
C17_UnknownMatchType ==
    (ProbeCall /\ ret.probe.match_type \notin {"exact", "contains", "regex"}) =>
        /\ ~Succeeded(ret.probe_result) =>
              /\ ret.status = "returned"
              /\ ret.match = FALSE
              /\ SubSeq(ret.evidence, 1, 14) = "Probe failed: "
        /\ (Succeeded(ret.probe_result) /\ NoExtractableField(ret.probe_result, ret.probe)) =>
              /\ ret.status = "returned"
              /\ ret.match = FALSE
              /\ ret.evidence = "Field not found in response"
        /\ (Succeeded(ret.probe_result) /\ HasField(ret.probe_result, ret.probe)) =>
              /\ ret.status = "returned"
              /\ ret.match = FALSE
              /\ ret.evidence = "Unknown match type: " \o ret.probe.match_type

---------------------------------------------------------------------------
FingerprintCall == ret.op = "evaluate_fingerprint"
FingerprintReturned == FingerprintCall /\ ret.status = "returned"

(* what evaluate_probe gives for the i-th pair of the call *)
ProbeOutcome(i) == evaluate_probe(ret.probe_results[i].result, ret.probe_results[i].probe)

(* C18: with match_logic "all", and with every match_logic other than      *)
(* "any" ("custom" included), overall_match is the AND of the individual   *)
(* probe matches: false as soon as one probe did not match, true for an    *)
(* empty list of probe results.                                            *)
C18_AllIsAnd ==
    (FingerprintReturned /\ ret.fingerprint.match_logic # "any") =>
        /\ ret.value.overall_match <=> \A i \in 1..Len(ret.probe_results) : ProbeOutcome(i).match
        /\ ret.value.overall_match <=> \A i \in 1..Len(ret.value.probe_results) : ret.value.probe_results[i].match
        /\ ret.probe_results = << >> => ret.value.overall_match = TRUE

(* "custom" logic, one probe matched and one did not: false *)
C18_Witness ==
    /\ FingerprintReturned
    /\ ret.fingerprint.match_logic = "custom"
    /\ Len(ret.probe_results) = 2
    /\ ret.value.probe_results[1].match
    /\ ~ret.value.probe_results[2].match
    /\ ret.value.overall_match = FALSE

(* C19: with match_logic "any", overall_match is the OR of the individual  *)
(* probe matches: true iff at least one probe result matched, false for an *)
(* empty list.                                                             *)
C19_AnyIsOr ==
    (FingerprintReturned /\ ret.fingerprint.match_logic = "any") =>
        /\ ret.value.overall_match <=> \E i \in 1..Len(ret.probe_results) : ProbeOutcome(i).match
        /\ ret.value.overall_match <=> \E i \in 1..Len(ret.value.probe_results) : ret.value.probe_results[i].match
        /\ ret.probe_results = << >> => ret.value.overall_match = FALSE

(* "any" logic, the first probe did not match, the second did: true *)
C19_Witness ==
    /\ FingerprintReturned
    /\ ret.fingerprint.match_logic = "any"
    /\ Len(ret.probe_results) = 2
    /\ ~ret.value.probe_results[1].match
    /\ ret.value.probe_results[2].match
    /\ ret.value.overall_match = TRUE

(* C20: every (probe, result) pair is evaluated, whatever the verdict:     *)
(* probe_results has one record per input pair in input order, evidence   *)
(* is the evidence texts of all records in that order joined by "; ", and  *)
(* matched_probes is the sequence of the names of the records whose match  *)
(* is true.                                                                *)
C20_NoShortCircuit ==
    FingerprintReturned =>
        LET recs == ret.value.probe_results
            IsMatch(r) == r.match
            matched == SelectSeq(recs, IsMatch)
        IN /\ Len(recs) = Len(ret.probe_results)
           /\ \A i \in 1..Len(recs) :
                 /\ recs[i].probe = ret.probe_results[i].probe.name
                 /\ recs[i].match = ProbeOutcome(i).match
                 /\ recs[i].evidence = ProbeOutcome(i).evidence
           /\ ret.value.evidence = Join([i \in 1..Len(recs) |-> recs[i].evidence])
           /\ Len(recs) = 0 => ret.value.evidence = ""
           /\ Len(recs) = 1 => ret.value.evidence = recs[1].evidence
           /\ Len(recs) = 2 => ret.value.evidence = recs[1].evidence \o "; " \o recs[2].evidence
           /\ ret.value.matched_probes = [i \in 1..Len(matched) |-> matched[i].probe]
           /\ ret.value.fingerprint_id = ret.fingerprint.fingerprint_id

(* "all" logic, the first probe failed, so the verdict is decided; the     *)
(* second is still evaluated and is the only matched probe                 *)
C20_Witness ==
    /\ FingerprintReturned
    /\ ret.fingerprint.match_logic = "all"
    /\ Len(ret.value.probe_results) = 2
    /\ ~ret.value.probe_results[1].match
    /\ ret.value.probe_results[2].match
    /\ ret.value.overall_match = FALSE
    /\ ret.value.matched_probes = <<ret.probe_results[2].probe.name>>
    /\ ret.value.evidence = "Probe failed: Timeout; headers.server=Apache/2.4.41"

---------------------------------------------------------------------------
(* The EvidenceCollector used on its own: engine/evidence.py,              *)
(* tests/engine/test_evidence.py                                           *)

(* Arguments of add_probe_result the caller passes: a failed record whose  *)
(* match flag is set, a match, a mismatch, a failed record with no message *)
EvidenceArgs ==
    {[probe_name |-> HttpProbe.name, target |-> "192.0.2.1", success |-> FALSE,
      match |-> TRUE, expected_value |-> "Apache", actual_value |-> "",
      error_message |-> "Timeout", raw_data |-> PyNone],
     [probe_name |-> HttpProbe.name, target |-> "192.0.2.1", success |-> TRUE,
      match |-> TRUE, expected_value |-> "Apache", actual_value |-> "Apache/2.4.41",
      error_message |-> "", raw_data |-> Items(<<BothItem>>)],
     [probe_name |-> HttpProbe.name, target |-> "192.0.2.2", success |-> TRUE,
      match |-> FALSE, expected_value |-> "Apache", actual_value |-> "Nginx",
      error_message |-> "", raw_data |-> EmptyDict],
     [probe_name |-> TlsProbe.name, target |-> "192.0.2.2", success |-> FALSE,
      match |-> FALSE, expected_value |-> "", actual_value |-> "",
      error_message |-> "", raw_data |-> PyNone]}

(* Evidence(...) objects the caller builds to hand to add_evidence *)
EvidenceRecord ==
    {Evidence(a.probe_name, a.target, a.success, a.match, a.expected_value,
              a.actual_value, a.error_message, EmptyDict) : a \in EvidenceArgs}

(* evidence = collector.add_probe_result(...) *)
AddProbeResult(a) ==
    /\ pc = "idle"
    /\ Len(evidence_list) < MaxEvidence
    /\ evidence_list' = add_probe_result(evidence_list, a.probe_name, a.target, a.success, a.match, a.expected_value, a.actual_value, a.error_message, a.raw_data)
    /\ ret' = [op |-> "add_probe_result", status |-> "returned",
               value |-> Evidence(a.probe_name, a.target, a.success, a.match,
                                  a.expected_value, a.actual_value, a.error_message,
                                  IF Truthy(a.raw_data) THEN a.raw_data ELSE EmptyDict)]
    /\ UNCHANGED <<providers, plan, pc, exec_locals>>

(* collector.add_evidence(evidence) *)
AddEvidence(evidence) ==
    /\ pc = "idle"
    /\ Len(evidence_list) < MaxEvidence
    /\ evidence_list' = add_evidence(evidence_list, evidence)
    /\ ret' = [op |-> "add_evidence", status |-> "returned"]
    /\ UNCHANGED <<providers, plan, pc, exec_locals>>

(* collector.get_evidence_for_target(target) *)
GetEvidenceForTarget(target) ==
    /\ pc = "idle"
    /\ ret' = [op |-> "get_evidence_for_target", status |-> "returned",
               value |-> get_evidence_for_target(evidence_list, target),
               args |-> <<target>>]
    /\ UNCHANGED <<providers, plan, evidence_list, pc, exec_locals>>

(* collector.get_failed_probes() *)
GetFailedProbes ==
    /\ pc = "idle"
    /\ ret' = [op |-> "get_failed_probes", status |-> "returned",
               value |-> get_failed_probes(evidence_list)]
    /\ UNCHANGED <<providers, plan, evidence_list, pc, exec_locals>>

(* collector.get_matching_probes() *)
GetMatchingProbes ==
    /\ pc = "idle"
    /\ ret' = [op |-> "get_matching_probes", status |-> "returned",
               value |-> get_matching_probes(evidence_list)]
    /\ UNCHANGED <<providers, plan, evidence_list, pc, exec_locals>>

(* collector.evidence_list[i].summary() *)
Summary(i) ==
    /\ pc = "idle"
    /\ i \in 1..Len(evidence_list)
    /\ ret' = [op |-> "summary", status |-> "returned",
               value |-> summary(evidence_list[i]), args |-> <<i>>]
    /\ UNCHANGED <<providers, plan, evidence_list, pc, exec_locals>>

NextEvidence ==
    \/ \E a \in EvidenceArgs : AddProbeResult(a)
    \/ \E evidence \in EvidenceRecord : AddEvidence(evidence)
    \/ \E target \in Targets : GetEvidenceForTarget(target)
    \/ GetFailedProbes
    \/ GetMatchingProbes
    \/ \E i \in 1..MaxEvidence : Summary(i)
    \/ Clear

SpecEvidence == Init /\ [][NextEvidence]_vars

---------------------------------------------------------------------------
(* Vocabulary of the collector claims *)

AddOps == {"add_probe_result", "add_evidence"}

QueryOps == {"get_evidence_for_target", "get_failed_probes", "get_matching_probes"}

(* the positions of L, in increasing order, as a sequence *)
RECURSIVE Ascending(_)
Ascending(J) ==
    IF J = {} THEN << >>
    ELSE LET m == CHOOSE x \in J : \A y \in J : x <= y
         IN <<m>> \o Ascending(J \ {m})

(* R is L restricted to the positions J, order kept *)
IsRestriction(R, L, J) ==
    /\ Len(R) = Cardinality(J)
    /\ \A k \in 1..Len(R) : R[k] = L[Ascending(J)[k]]

InSeq(e, L) == \E i \in 1..Len(L) : L[i] = e

(* C21: a step of add_probe_result or add_evidence makes the list one      *)
(* longer, with the earlier records unchanged in front and the new record  *)
(* last, also when an equal record is stored already; add_probe_result     *)
(* returns the record it appended; a step that makes the list shorter is   *)
(* clear(), and it leaves the list empty.                                  *)
C21_AppendOnly ==
    [][/\ ret'.op \in AddOps =>
            /\ Len(evidence_list') = Len(evidence_list) + 1
            /\ SubSeq(evidence_list', 1, Len(evidence_list)) = evidence_list
            /\ ret'.op = "add_probe_result" => ret'.value = Last(evidence_list')
       /\ Len(evidence_list') < Len(evidence_list) =>
            /\ evidence_list' = << >>
            /\ ret' = NoValue
       /\ ret'.op \notin AddOps =>
            \/ evidence_list' = evidence_list
            \/ evidence_list' = << >>]_vars

(* add_probe_result has stored a second record equal to the first one and  *)
(* returned it                                                             *)
C21_Witness ==
    /\ ret.op = "add_probe_result"
    /\ Len(evidence_list) = 2
    /\ evidence_list[1] = evidence_list[2]
    /\ ret.value = evidence_list[2]

(* add_evidence has stored a third record equal to the first one *)
C21_WitnessAdd ==
    /\ ret.op = "add_evidence"
    /\ Len(evidence_list) = 3
    /\ evidence_list[1] = evidence_list[3]
    /\ evidence_list[2] # evidence_list[3]

(* C22: what a query method returned is the stored sequence restricted, in *)
(* order, to the records of the asked target / with success false / with   *)
(* success and match true; the query step left the stored sequence as it   *)
(* was; no stored record is in both the failed and the matching result.    *)
C22_QueriesFilter ==
    /\ [](LET L == evidence_list IN
          /\ ret.op = "get_evidence_for_target" =>
                IsRestriction(ret.value, L, {j \in 1..Len(L) : L[j].target = ret.args[1]})
          /\ ret.op = "get_failed_probes" =>
                IsRestriction(ret.value, L, {j \in 1..Len(L) : L[j].success = FALSE})
          /\ ret.op = "get_matching_probes" =>
                IsRestriction(ret.value, L, {j \in 1..Len(L) : L[j].success = TRUE /\ L[j].match = TRUE})
          /\ \A j \in 1..Len(L) :
                ~(InSeq(L[j], get_failed_probes(L)) /\ InSeq(L[j], get_matching_probes(L))))
    /\ [][ret'.op \in QueryOps => evidence_list' = evidence_list]_vars

(* get_matching_probes returned the second of three stored records, the    *)
(* first being a failed one with its match flag set                        *)
C22_Witness ==
    /\ ret.op = "get_matching_probes"
    /\ Len(evidence_list) = 3
    /\ ~evidence_list[1].success /\ evidence_list[1].match
    /\ ret.value = <<evidence_list[2]>>

(* get_failed_probes returned the first and the third of three records *)
C22_WitnessFailed ==
    /\ ret.op = "get_failed_probes"
    /\ Len(evidence_list) = 3
    /\ ret.value = <<evidence_list[1], evidence_list[3]>>
    /\ evidence_list[1] # evidence_list[3]

(* C23: summary() of a record is "Failed: {error_message}" when success is *)
(* false, whatever match is; else "Matched '{expected_value}' found as     *)
(* '{actual_value}'" when match is true; else "No match: expected          *)
(* '{expected_value}', got '{actual_value}'".                              *)
C23_SummaryPriority ==
    ret.op = "summary" =>
        LET e == evidence_list[ret.args[1]] IN
        /\ e.success = FALSE => ret.value = "Failed: " \o e.error_message
        /\ e.success = TRUE /\ e.match = TRUE =>
              ret.value = "Matched '" \o e.expected_value \o "' found as '" \o e.actual_value \o "'"
        /\ e.success = TRUE /\ e.match = FALSE =>
              ret.value = "No match: expected '" \o e.expected_value \o "', got '" \o e.actual_value \o "'"

(* summary() of a failed record whose match flag is set *)
C23_Witness ==
    /\ ret.op = "summary"
    /\ evidence_list[ret.args[1]].success = FALSE
    /\ evidence_list[ret.args[1]].match = TRUE
    /\ ret.value = "Failed: Timeout"

(* summary() of a matching record *)
C23_WitnessMatched ==
    /\ ret.op = "summary"
    /\ ret.value = "Matched 'Apache' found as 'Apache/2.4.41'"

---------------------------------------------------------------------------
(* A plan through its life: built by hand, validated, estimated,           *)
(* optimized, looked up and executed                                       *)

NextPlanLife ==
    \/ \E provider \in BaseProvider : RegisterProvider(provider)
    \/ \E target \in Targets, probes \in ProbeLists : AddTarget(target, probes)
    \/ ValidatePlan
    \/ OptimizePlan
    \/ \E provider_delay \in ProviderDelay : EstimateScanTime(provider_delay)
    \/ \E target \in Targets : GetProbesForTarget(target)
    \/ Clear
    \/ ExecBegin
    \/ ExecSelectRaises
    \/ ExecNoProvider
    \/ \E outcome \in QueryOutcome : ExecQuery(outcome)
    \/ ExecTargetDone
    \/ ExecReturn

SpecPlanLife == Init /\ [][NextPlanLife]_vars

PlanReadOps == {"validate", "estimate_scan_time", "optimize_plan", "get_probes_for_target", "execute_plan"}

(* C24: a step of validate, estimate_scan_time, optimize_plan,             *)
(* get_probes_for_target or of a running execute_plan leaves the plan as   *)
(* it was (same targets, same probe lists, same order), so validate()      *)
(* answers the same before and after; what optimize_plan returns is given  *)
(* back to the caller and not put in the plan's place;                     *)
(* get_probes_for_target of a target that is not in the plan returns the   *)
(* empty list and the target is not in the plan afterwards.                *)
C24_PlanUnchanged ==
    [][/\ (ret'.op \in PlanReadOps \/ pc = "exec" \/ pc' = "exec") =>
            /\ plan' = plan
            /\ validate(plan') = validate(plan)
       /\ (ret'.op = "get_probes_for_target" /\ KeyIndex(plan, ret'.args[1]) = 0) =>
            /\ ret'.value = << >>
            /\ KeyIndex(plan', ret'.args[1]) = 0]_vars

(* get_probes_for_target on a plan without targets: the list is empty and  *)
(* the plan still has no target                                            *)
C24_Witness ==
    /\ ret.op = "get_probes_for_target"
    /\ ret.value = << >>
    /\ plan = NewScanPlan

(* execute_plan has returned after recording evidence for a plan of two    *)
(* targets                                                                 *)
C24_WitnessExecuted ==
    /\ ret.op = "execute_plan"
    /\ ret.status = "returned"
    /\ Len(plan) = 2
    /\ Len(evidence_list) >= 2

(* optimize_plan has returned a plan that differs from its argument *)
C24_WitnessOptimized ==
    /\ OptimizeReturned
    /\ ret.value # plan
    /\ ret.value # NewScanPlan

---------------------------------------------------------------------------
(* C25: estimate_scan_time(plan, provider_delay) is the number of probes   *)
(* of the plan, all targets together, times provider_delay; 0 for a plan   *)
(* without targets; the registry plays no part.                            *)
C25_EstimateIsCountTimesDelay ==
    ret.op = "estimate_scan_time" =>
        /\ ret.status = "returned"
        /\ ret.value = Len(FlatPlan(plan)) * ret.args[1]
        /\ plan = NewScanPlan => ret.value = 0

(* two targets with two probes and one probe, delay 2 *)
C25_Witness ==
    /\ ret.op = "estimate_scan_time"
    /\ Len(plan) = 2
    /\ Len(plan[1].probes) = 2
    /\ Len(plan[2].probes) = 1
    /\ ret.args[1] = 2
    /\ ret.value = 6

(* a plan without targets, delay 1 *)
C25_WitnessEmpty ==
    /\ ret.op = "estimate_scan_time"
    /\ plan = NewScanPlan
    /\ ret.args[1] = 1
    /\ ret.value = 0

---------------------------------------------------------------------------
(* the (target, probe) entries of a plan with the number of times each     *)
(* occurs                                                                  *)
Entries(tp) ==
    [e \in {FlatPlan(tp)[j] : j \in 1..Len(FlatPlan(tp))} |->
        Cardinality({j \in 1..Len(FlatPlan(tp)) : FlatPlan(tp)[j] = e})]

(* C30: with the registry as it is, optimize_plan applied to a plan it     *)
(* returned returns that same plan (same targets, same probe lists, same   *)
(* order); when every probe of the input plan has a selectable provider    *)
(* the returned plan holds the same (target, probe) entries as the input,  *)
(* which are the entries an execution attempts.                            *)
C30_Idempotent ==
    OptimizeReturned =>
        /\ optimize_plan(providers, ret.value) = [status |-> "returned", value |-> ret.value]
        /\ AllSelectable(providers, plan) => Entries(ret.value) = Entries(plan)

(* a returned plan in which the probes of one target belong to two         *)
(* providers and were reordered                                            *)
C30_Witness ==
    /\ OptimizeReturned
    /\ AllSelectable(providers, plan)
    /\ \E i \in 1..Len(plan) :
          /\ get_probes_for_target(ret.value, plan[i].target) # plan[i].probes
          /\ Len(ProviderKeys(providers, plan[i].probes, << >>)) = 2

---------------------------------------------------------------------------
(* the query calls of a log, without their outcomes *)
Calls(qs) == [j \in 1..Len(qs) |-> [provider |-> qs[j].provider, target |-> qs[j].target, probe |-> qs[j].probe]]

(* the first registered provider whose can_handle answers true *)
FirstCapable(provs, probe) ==
    CHOOSE i \in 1..Len(provs) :
        /\ can_handle(provs[i], probe) = "true"
        /\ \A j \in 1..(i - 1) : can_handle(provs[j], probe) # "true"

(* the calls due for the first n entries of the plan: one per entry that   *)
(* has a provider, on its first capable provider, in plan order            *)
DueCalls(provs, tp, n) ==
    LET HasProvider(e) == Capable(provs, e.probe) /\ ~CanHandleRaises(provs, e.probe)
        due == SelectSeq(SubSeq(FlatPlan(tp), 1, n), HasProvider)
    IN [j \in 1..Len(due) |-> [provider |-> FirstCapable(provs, due[j].probe), target |-> due[j].target, probe |-> due[j].probe]]

(* C26: the query calls of an execute_plan are made one per step, in plan  *)
(* order (targets in insertion order, probes in list order): while it runs *)
(* the calls made so far are exactly one call, on the first registered     *)
(* capable provider, for each entry with a provider among the entries      *)
(* passed, none for an entry without provider and none twice, whatever the *)
(* earlier queries returned or raised; a run that returns has made exactly *)
(* these calls for the whole plan, a run that a raising can_handle ended   *)
(* has made them for the entries before that one.                          *)
C26_QueriesInPlanOrder ==
    /\ [](/\ pc = "exec" =>
                Calls(queries) = DueCalls(providers, plan, DoneBefore(plan, ti, pi))
          /\ (ExecReturned /\ validate(plan)) =>
                Calls(ret.queries) = DueCalls(providers, plan, SumLen(plan))
          /\ (ExecEnded /\ ret.status = "raised") =>
                \E n \in 0..SumLen(plan) : Calls(ret.queries) = DueCalls(providers, plan, n))
    /\ [][Len(queries') > Len(queries) =>
              /\ Len(queries') = Len(queries) + 1
              /\ SubSeq(queries', 1, Len(queries)) = queries
              /\ DoneBefore(plan, ti', pi') = DoneBefore(plan, ti, pi) + 1]_vars

(* a run returned after three entries: a query that raised, a probe        *)
(* without provider, and a query that reported a failure, each made once   *)
C26_Witness ==
    /\ ExecReturned
    /\ SumLen(plan) = 3
    /\ Len(ret.queries) = 2
    /\ ret.queries[1].outcome.kind = "raise"
    /\ ret.queries[2].outcome = [kind |-> "dict", result |-> FailedResult]
    /\ \E i \in 1..Len(evidence_list) : evidence_list[i].error_message = NoProviderAvailable

(* a call was made on the provider registered second, the first one having *)
(* answered false                                                          *)
C26_WitnessSecondProvider ==
    /\ ExecReturned
    /\ \E i \in 1..Len(ret.queries) : ret.queries[i].provider = 2

---------------------------------------------------------------------------
(* the step took the no-provider branch for the current probe *)
NoProviderStep ==
    /\ InProbeLoop
    /\ pi' = pi + 1
    /\ Len(queries') = Len(queries)

(* C29: the record appended for a query that returned a result dict has    *)
(* expected_value = probe.value and empty actual_value and error_message,  *)
(* also when the result reports success = false with an error string; the  *)
(* record appended for a probe without provider or for a query that raised *)
(* has the fixed text or the exception's message as error_message and an   *)
(* empty expected_value; so a record with a non-empty error_message is     *)
(* never one of a returned result: it has an empty expected_value and      *)
(* success = false.                                                        *)
C29_ReturnedStep ==
    (Queried /\ NewQuery.outcome.kind = "dict") =>
        /\ AppendedOne
        /\ Last(evidence_list').expected_value = NewQuery.probe.value
        /\ Last(evidence_list').actual_value = ""
        /\ Last(evidence_list').error_message = ""

C29_FailedStep ==
    /\ (Queried /\ NewQuery.outcome.kind # "dict") =>
          /\ AppendedOne
          /\ Last(evidence_list').error_message =
                IF NewQuery.outcome.kind = "none" THEN NoneHasNoGet ELSE NewQuery.outcome.message
          /\ Last(evidence_list').expected_value = ""
    /\ NoProviderStep =>
          /\ AppendedOne
          /\ Last(evidence_list').error_message = NoProviderAvailable
          /\ Last(evidence_list').expected_value = ""

C29_ErrorOnlyWhenNotReturned ==
    \A i \in 1..Len(evidence_list) :
        evidence_list[i].error_message # "" =>
            /\ evidence_list[i].expected_value = ""
            /\ evidence_list[i].success = FALSE

C29_RecordFields == [][C29_ReturnedStep /\ C29_FailedStep]_vars /\ []C29_ErrorOnlyWhenNotReturned

(* one run recorded a result reporting a failure with an error string, a   *)
(* probe without provider and a query that raised                          *)
C29_Witness ==
    /\ ExecReturned
    /\ Len(ret.queries) = 2
    /\ \E i \in 1..2 : ret.queries[i].outcome = [kind |-> "dict", result |-> FailedResult]
    /\ \E i \in 1..2 : ret.queries[i].outcome.kind = "raise"
    /\ \E i \in 1..Len(evidence_list) : evidence_list[i].error_message = NoProviderAvailable
    /\ \E i \in 1..Len(evidence_list) : evidence_list[i].error_message = "" /\ ~evidence_list[i].success

---------------------------------------------------------------------------
(* The pipeline: providers are registered, create_scan_plan builds the     *)
(* plan from the fingerprint, execute_plan runs it, and each target's      *)
(* (probe, result) pairs are handed to evaluate_fingerprint with the       *)
(* fingerprint's match logic "all".  Every plan is one create_scan_plan    *)
(* returned; providers may be registered before and after it.              *)

(* Evaluator.evaluate_fingerprint(results[target], fingerprint) on the     *)
(* mapping execute_plan returned                                           *)
EvaluateTargetResults(target, fingerprint) ==
    /\ pc = "idle"
    /\ ret.op = "execute_plan"
    /\ ret.status = "returned"
    /\ KeyIndex(ret.value, target) # 0
    /\ LET probe_results == ret.value[KeyIndex(ret.value, target)].pairs
           r == evaluate_fingerprint(probe_results, fingerprint)
       IN ret' = IF r.status = "returned"
                 THEN [op |-> "evaluate_fingerprint", status |-> "returned", target |-> target, probe_results |-> probe_results, fingerprint |-> fingerprint, value |-> r.value]
                 ELSE [op |-> "evaluate_fingerprint", status |-> "raised", target |-> target, probe_results |-> probe_results, fingerprint |-> fingerprint, exc |-> r.exc]
    /\ UNCHANGED <<providers, plan, evidence_list, pc, exec_locals>>

(* The no-provider branch and a raising selection are left out of the      *)
(* pipeline's steps: C28_ProviderKept shows that on a created plan every   *)
(* selection gives a provider, in every state of the pipeline.             *)
NextPipeline ==
    \/ \E provider \in BaseProvider : RegisterProvider(provider)
    \/ \E targets \in TargetLists, probes \in ProbeLists, m \in MaxProbesArgs : CreateScanPlan(targets, probes, m)
    \/ ExecBegin
    \/ \E outcome \in QueryOutcome : ExecQuery(outcome)
    \/ ExecTargetDone
    \/ ExecReturn
    \/ \E target \in Targets : EvaluateTargetResults(target, Fingerprint("all"))

SpecPipeline == Init /\ [][NextPipeline]_vars

(* the verdict of evaluate_probe on a pair is a match *)
PairMatched(pair) ==
    /\ evaluate_probe(pair.result, pair.probe).status = "returned"
    /\ evaluate_probe(pair.result, pair.probe).match

(* C27: in the pipeline with match logic "all", when a target is reported  *)
(* with overall_match true, every probe planned for the target was queried *)
(* (its pair is among the target's results) and matched; a target whose    *)
(* provider raised on a probe is not reported with overall_match true.     *)
C27_AllNeedsEveryPlannedProbe ==
    (ret.op = "evaluate_fingerprint" /\ ret.status = "returned" /\ ret.value.overall_match) =>
        LET planned == get_probes_for_target(plan, ret.target) IN
        /\ Len(ret.probe_results) = Len(planned)
        /\ \A j \in 1..Len(planned) :
              /\ ret.probe_results[j].probe = planned[j]
              /\ PairMatched(ret.probe_results[j])

(* C28: a register_provider step appends: the providers registered before  *)
(* keep their places; for a plan create_scan_plan returned, every probe of *)
(* the plan has a selected provider and the step leaves that provider the  *)
(* same; an execute_plan of the plan finds a provider for every probe, so  *)
(* no record says "No provider available".                                 *)
SelectedProvider(provs, probe) == provs[select_provider_for_probe(provs, probe)]

C28_RegisterStep ==
    providers' # providers =>
        /\ Len(providers') = Len(providers) + 1
        /\ SubSeq(providers', 1, Len(providers)) = providers
        /\ \A i \in 1..Len(plan) : \A j \in 1..Len(plan[i].probes) :
              /\ select_provider_for_probe(providers', plan[i].probes[j]) >= 1
              /\ SelectedProvider(providers', plan[i].probes[j]) = SelectedProvider(providers, plan[i].probes[j])

C28_Selectable ==
    /\ AllSelectable(providers, plan)
    /\ \A i \in 1..Len(evidence_list) : evidence_list[i].error_message # NoProviderAvailable

C28_ProviderKept == [][C28_RegisterStep]_vars /\ []C28_Selectable

(* a provider that can handle the plan's probe was registered after        *)
(* create_scan_plan had returned the plan                                  *)
C28_Witness ==
    /\ ret.op = "register_provider"
    /\ plan # NewScanPlan
    /\ Len(providers) = 2
    /\ \E i \in 1..Len(plan) : \E j \in 1..Len(plan[i].probes) :
          /\ can_handle(providers[2], plan[i].probes[j]) = "true"
          /\ select_provider_for_probe(providers, plan[i].probes[j]) = 1

(* an execute_plan of a created plan returned with two providers           *)
(* registered, the second one able to handle a probe of the plan           *)
C28_WitnessExecuted ==
    /\ ExecReturned
    /\ Len(providers) = 2
    /\ Len(ret.queries) >= 2
    /\ \E i \in 1..Len(ret.queries) :
          /\ ret.queries[i].provider = 1
          /\ can_handle(providers[2], ret.queries[i].probe) = "true"

====
